---- MODULE Spec2Model ----
(***************************************************************************)
(* Verification model of the domain-name discovery service:                *)
(*   - the check dispatcher   (apps/api  routes/domain.py enqueue_and_wait)*)
(*   - the suggestion orchestrator, batch and streaming                    *)
(*                            (apps/api  routes/domain.py suggest, ...)    *)
(*   - the idle-recheck supervisor and its Redis lock                      *)
(*                            (apps/worker domain_checker/main.py)         *)
(*   - the domain records, their API writers and the worker's job handlers *)
(*                            (apps/api utils.py, apps/worker main.py)     *)
(* Each component has its own specification (SpecDisp, SpecOrch, SpecLock, *)
(* SpecWork, SpecDb);                                                      *)
(* the variables of the other components stay at their initial values.     *)
(***************************************************************************)
EXTENDS Integers, Sequences, FiniteSets, TLC

(***************************************************************************)
(* Domains are strings, modelled as sequences of code points.              *)
(***************************************************************************)
Dot == 46
Space == 32
MaxAscii == 127
ReplacementChar == 65533
IdnaMaxLabel == 63

DomGoodA == <<97, 46, 99>>          \* "a.c"
DomGoodB == <<98, 46, 99>>          \* "b.c"
DomNonAscii == <<1073, 46, 99>>     \* cyrillic label: rejected by the validator
DomNoDot == <<97, 98>>              \* "ab": rejected by the validator

Range(s) == {s[i] : i \in 1..Len(s)}

IsInjective(s) == \A i, j \in 1..Len(s) : s[i] = s[j] => i = j

\* str.strip(): drop leading and trailing whitespace
RECURSIVE StripLeft(_)
StripLeft(s) == IF s # <<>> /\ Head(s) = Space THEN StripLeft(Tail(s)) ELSE s

RECURSIVE StripRight(_)
StripRight(s) ==
    IF s # <<>> /\ s[Len(s)] = Space THEN StripRight(SubSeq(s, 1, Len(s) - 1)) ELSE s

Strip(s) == StripRight(StripLeft(s))

\* str.split('.'): the labels between the dots
RECURSIVE SplitDots(_, _)
SplitDots(s, cur) ==
    IF s = <<>> THEN <<cur>>
    ELSE IF Head(s) = Dot THEN <<cur>> \o SplitDots(Tail(s), <<>>)
    ELSE SplitDots(Tail(s), Append(cur, Head(s)))

\* domain.encode('idna') raises on an empty or over-long label
IdnaEncodable(s) ==
    \A i \in 1..Len(SplitDots(s, <<>>)) :
        LET label == SplitDots(s, <<>>)[i]
        IN  (Len(label) >= 1 /\ Len(label) <= IdnaMaxLabel)
            \/ (i = Len(SplitDots(s, <<>>)) /\ label = <<>>)

is_valid_domain(domain) ==
    LET d == Strip(domain) IN
    /\ domain # <<>>
    /\ d # <<>>
    /\ ReplacementChar \notin Range(d)
    /\ \A ch \in Range(d) : ch <= MaxAscii
    /\ Dot \in Range(d)
    /\ \A part \in Range(SplitDots(d, <<>>)) : Strip(part) # <<>>
    /\ IdnaEncodable(d)

RECURSIVE SelectValid(_, _)
SelectValid(s, want) ==
    IF s = <<>> THEN <<>>
    ELSE IF is_valid_domain(Head(s)) = want
         THEN <<Head(s)>> \o SelectValid(Tail(s), want)
         ELSE SelectValid(Tail(s), want)

\* mutation: the partition lets every candidate through
filter_accepts_all(domains) == [valid |-> domains, invalid |-> <<>>]

\* filter_valid_domains returns (valid, invalid), each in input order
filter_valid_domains(domains) ==
    [valid |-> SelectValid(domains, TRUE), invalid |-> SelectValid(domains, FALSE)]

(***************************************************************************)
(* State.  Check dispatcher, then idle-recheck supervisors, then the       *)
(* suggestion orchestrator.                                                *)
(***************************************************************************)
VARIABLES
    d_pc,               \* position inside enqueue_and_wait
    domains,            \* the argument of enqueue_and_wait
    valid_domains,      \* filter_valid_domains(domains)[0]
    results,            \* the list being returned
    jobs,               \* domains of the jobs created, in creation order
    d_idx,              \* index of the valid domain being enqueued
    attempt,            \* enqueue attempt (0-based) for that domain
    timeout,            \* settings.rq_job_timeout_seconds
    d_clock,            \* time.monotonic() since the wait began
    pending_jobs,       \* indexes into jobs still polled
    completed_results,  \* results harvested by _wait_for_jobs_results
    dropped_jobs,       \* history: jobs a poll saw failed or finished without a record
    snapshots           \* queue snapshots scheduled, in order

dvars == <<d_pc, domains, valid_domains, results, jobs, d_idx, attempt, timeout,
           d_clock, pending_jobs, completed_results, dropped_jobs, snapshots>>

VARIABLES
    s_pc,            \* per worker: position of its supervisor thread
    idle_duration,   \* per worker: seconds since last_job_time
    lock_ttl,        \* remaining TTL of worker:recheck_lock:<queue>, 0 = absent
    lock_setter,     \* history: the worker whose SET NX created the key
    stale_domains,   \* per worker: the batch fetched by _enqueue_recheck_batch
    queue,           \* jobs waiting in the RQ queue
    running,         \* per worker: the job its job loop is performing
    db_last_checked, \* per domain record: "null", "old" or "fresh"
    lost_release     \* history: a DELETE removed a key set by another worker

lvars == <<s_pc, idle_duration, lock_ttl, lock_setter, stale_domains, queue,
           running, db_last_checked, lost_release>>

VARIABLES
    o_pc,               \* position inside the handler
    mode,               \* "batch" (suggest) or "stream" (suggest_stream)
    requested_count,    \* request.count, then requested_count of the handler
    max_retries,        \* max(1, settings.max_suggestions_retries)
    retries,
    accumulated,        \* list of [domain, status]
    accumulated_lookup, \* domain -> status, "absent" when not a key
    available_count,
    plain_domains,      \* the LLM output of this pass
    domains_to_check,   \* the list handed to enqueue_and_wait in this pass
    status_lookup,      \* domain -> worker status, "absent" when not a key
    o_idx,              \* index into plain_domains of the candidate processed next
    events,             \* server-sent events yielded so far (streaming)
    response,           \* what the batch handler returned or raised
    retry_count,        \* metrics.retry_count
    llm_call_count,     \* metrics.llm_call_count
    saves_scheduled,    \* background persistence tasks scheduled
    o_error,            \* the failure that ended the handler, "none" if none
    domains_by_status,  \* metrics.domains_by_status
    unique_domains,     \* metrics.unique_domains
    metrics_rows,       \* the rows MetricsTracker.save writes for this request
    statuses_seen,      \* history: worker statuses read from status_lookup so far
    suggestion_records, \* suggestion records created for this request
    first_suggestion_sent,
    first_suggestion,   \* history: the record at which time-to-first-suggestion
                        \* was stamped, NotStamped before
    persisted           \* fqdn -> status the streaming handler stored last

ovars == <<o_pc, mode, requested_count, max_retries, retries, accumulated,
           accumulated_lookup, available_count, plain_domains, domains_to_check,
           status_lookup, o_idx, events, response, retry_count, llm_call_count,
           saves_scheduled, o_error, domains_by_status, unique_domains,
           metrics_rows, statuses_seen, suggestion_records,
           first_suggestion_sent, first_suggestion, persisted>>

\* what the streaming handler keeps besides the loop state
pvars == <<suggestion_records, first_suggestion_sent, first_suggestion, persisted>>

\* the part of the tracker that only some steps touch
mvars == <<domains_by_status, unique_domains, metrics_rows>>

VARIABLES
    db_rows,            \* per fqdn: its domain record, or NoRow
    db_now,             \* the last reading of datetime.now()
    api_ops             \* per API coroutine: the upsert or update it is running

bvars == <<db_rows, db_now, api_ops>>

VARIABLES
    j_pc,               \* position inside the worker's job handler
    j_kind,             \* "check" (handle_domain_check) or "recheck"
    j_domains,          \* the job's argument
    j_pending,          \* indexes of j_domains whose probe has not finished
    j_results,          \* results of check_domains, in completion order
    j_probes,           \* history: per index, what check_domain did
    wb_now,             \* `now` of _update_domain_statuses_async
    wb_idx,             \* index into j_results of the row updated next
    wb_failed,          \* history: the write-back raised
    j_returned          \* the handler's return value

wvars == <<j_pc, j_kind, j_domains, j_pending, j_results, j_probes, wb_now, wb_idx,
           wb_failed, j_returned>>

VARIABLES
    g_pc,               \* position inside GroqSuggestor.generate and its caller
    g_attempt,          \* `attempt` of the for loop
    g_outcomes,         \* history: what each _make_request call did, in order
    g_result,           \* what generate returned or raised
    g_events            \* events the streaming handler yields for the failure

gvars == <<g_pc, g_attempt, g_outcomes, g_result, g_events>>

VARIABLES
    c_pc,               \* position inside check_domain
    c_dns,              \* what dns_lookup_with_timeout did
    c_whois,            \* how subprocess.run(["whois", ...]) ended
    c_output,           \* the captured stdout (complete or partial)
    c_status            \* what check_domain returned, or that it raised

cvars == <<c_pc, c_dns, c_whois, c_output, c_status>>

vars == <<dvars, lvars, ovars, bvars, wvars, gvars, cvars>>

(***************************************************************************)
(* Bounds of the model.                                                    *)
(***************************************************************************)
MaxBatch == 3          \* longest candidate list handed to the dispatcher
MaxTimeout == 2        \* largest configured job timeout, in poll rounds

(***************************************************************************)
(* Check dispatcher: enqueue_and_wait and _wait_for_jobs_results.          *)
(***************************************************************************)

max_enqueue_retries == 3

DispUniverse == {DomGoodA, DomGoodB, DomNonAscii, DomNoDot}
WorkerStatuses == {"free", "registered", "non_conclusive", "invalid"}
WorkerIds == {"w1", "w2"}

\* duplicate-free candidate lists (the LLM client removes duplicates)
DispInputs ==
    {s \in UNION {[1..n -> DispUniverse] : n \in 0..MaxBatch} : IsInjective(s)}

Timeouts == (0 - 1)..MaxTimeout

\* a synthesized entry {"domain": d, "status": s}
StatusEntry(d, s) == [domain |-> d, status |-> s, worker_id |-> "none"]

\* the record a finished single-domain check job carries
JobResult(d, s, w) == [domain |-> d, status |-> s, worker_id |-> w]

\* what one job.refresh() can show for a polled job
JobOutcomes ==
    [kind : {"finished_dict"}, status : WorkerStatuses, worker_id : WorkerIds]
    \cup [kind : {"finished_other", "failed", "pending"}, status : {"none"},
          worker_id : {"none"}]

RECURSIVE InvalidEntries(_)
InvalidEntries(inv) ==
    IF inv = <<>> THEN <<>>
    ELSE <<StatusEntry(Head(inv), "invalid")>> \o InvalidEntries(Tail(inv))

\* domain.py 972-974: an unknown entry for every valid domain without a result
RECURSIVE MissingUnknown(_, _)
MissingUnknown(valid, processed) ==
    IF valid = <<>> THEN <<>>
    ELSE IF Head(valid) \in processed
         THEN MissingUnknown(Tail(valid), processed)
         ELSE <<StatusEntry(Head(valid), "unknown")>>
              \o MissingUnknown(Tail(valid), processed \cup {Head(valid)})

ProcessedDomains(res) == {res[i].domain : i \in 1..Len(res)}

\* one pass of the for loop in _wait_for_jobs_results over pending_jobs
RECURSIVE Harvest(_, _, _)
Harvest(pend, f, k) ==
    IF k > Len(pend) THEN <<>>
    ELSE IF f[k].kind = "finished_dict"
         THEN <<JobResult(jobs[pend[k]], f[k].status, f[k].worker_id)>>
              \o Harvest(pend, f, k + 1)
         ELSE Harvest(pend, f, k + 1)

RECURSIVE StillPending(_, _, _)
StillPending(pend, f, k) ==
    IF k > Len(pend) THEN <<>>
    ELSE IF f[k].kind = "pending"
         THEN <<pend[k]>> \o StillPending(pend, f, k + 1)
         ELSE StillPending(pend, f, k + 1)

InitDispVars ==
    /\ d_pc = "start"
    /\ domains \in DispInputs
    /\ timeout \in Timeouts
    /\ valid_domains = <<>>
    /\ results = <<>>
    /\ jobs = <<>>
    /\ d_idx = 1
    /\ attempt = 0
    /\ d_clock = 0
    /\ pending_jobs = <<>>
    /\ completed_results = <<>>
    /\ dropped_jobs = {}
    /\ snapshots = <<>>

IdleDispVars ==
    /\ d_pc = "off"
    /\ domains = <<>>
    /\ timeout = 0
    /\ valid_domains = <<>>
    /\ results = <<>>
    /\ jobs = <<>>
    /\ d_idx = 1
    /\ attempt = 0
    /\ d_clock = 0
    /\ pending_jobs = <<>>
    /\ completed_results = <<>>
    /\ dropped_jobs = {}
    /\ snapshots = <<>>

\* mutation: the snapshot task is created before the queue depth is read, and
\* again after it
ScheduleSnapshotTwice(snaps, depth_ok, label) ==
    IF depth_ok THEN snaps \o <<label, label>> ELSE Append(snaps, label)

\* domain.py 929-936 / 948-953: len(queue), then
\* asyncio.create_task(_record_queue_snapshot(depth)), not awaited; an
\* exception of the read is swallowed and no task is created
ScheduleSnapshot(snaps, depth_ok, label) ==
    IF depth_ok THEN Append(snaps, label) ELSE snaps

\* domain.py 882-897: empty input, validator partition, all-invalid return
DispFilter ==
    /\ d_pc = "start"
    /\ LET parts == filter_valid_domains(domains) IN
       /\ valid_domains' = parts.valid
       /\ results' = IF domains = <<>> THEN <<>> ELSE InvalidEntries(parts.invalid)
       /\ d_pc' = IF domains = <<>> \/ parts.valid = <<>> THEN "done" ELSE "enqueue"
    /\ UNCHANGED <<domains, jobs, d_idx, attempt, timeout, d_clock, pending_jobs,
                   completed_results, dropped_jobs, snapshots>>
    /\ UNCHANGED <<lvars, ovars, bvars, wvars, gvars, cvars>>

\* mutation: the last failed attempt is followed by one more
enqueue_retry_left_one_more(attempt_no) == attempt_no < max_enqueue_retries

\* domain.py 916, 921: `if attempt < max_enqueue_retries - 1`, sleep and
\* continue; attempt counts from 0
enqueue_retry_left(attempt_no) == attempt_no < max_enqueue_retries - 1

\* domain.py 906-913: queue.enqueue succeeds
EnqueueOk ==
    /\ d_pc = "enqueue"
    /\ d_idx <= Len(valid_domains)
    /\ jobs' = Append(jobs, valid_domains[d_idx])
    /\ d_idx' = d_idx + 1
    /\ attempt' = 0
    /\ UNCHANGED <<d_pc, domains, valid_domains, results, timeout, d_clock,
                   pending_jobs, completed_results, dropped_jobs, snapshots>>
    /\ UNCHANGED <<lvars, ovars, bvars, wvars, gvars, cvars>>

\* domain.py 914-927: queue.enqueue raises; retry, or give up with unknown
EnqueueFail ==
    /\ d_pc = "enqueue"
    /\ d_idx <= Len(valid_domains)
    /\ IF enqueue_retry_left(attempt)
       THEN /\ attempt' = attempt + 1
            /\ UNCHANGED <<d_idx, results>>
       ELSE /\ attempt' = 0
            /\ d_idx' = d_idx + 1
            /\ results' = Append(results, StatusEntry(valid_domains[d_idx], "unknown"))
    /\ UNCHANGED <<d_pc, domains, valid_domains, jobs, timeout, d_clock,
                   pending_jobs, completed_results, dropped_jobs, snapshots>>
    /\ UNCHANGED <<lvars, ovars, bvars, wvars, gvars, cvars>>

\* domain.py 929-940: first snapshot (len(queue) may raise), early return
AfterEnqueue ==
    /\ d_pc = "enqueue"
    /\ d_idx > Len(valid_domains)
    /\ \E depth_ok \in BOOLEAN :
           snapshots' = ScheduleSnapshot(snapshots, depth_ok, "after_enqueue")
    /\ IF timeout <= 0 \/ jobs = <<>>
       THEN /\ d_pc' = "done"
            /\ UNCHANGED <<pending_jobs>>
       ELSE /\ d_pc' = "wait"
            /\ pending_jobs' = [i \in 1..Len(jobs) |-> i]
    /\ UNCHANGED <<domains, valid_domains, results, jobs, d_idx, attempt, timeout,
                   d_clock, completed_results, dropped_jobs>>
    /\ UNCHANGED <<lvars, ovars, bvars, wvars, gvars, cvars>>

\* domain.py 1032-1050: one iteration of the polling loop
PollRound ==
    /\ d_pc = "wait"
    /\ d_clock < timeout
    /\ pending_jobs # <<>>
    /\ \E f \in [1..Len(pending_jobs) -> JobOutcomes] :
          /\ completed_results' = completed_results \o Harvest(pending_jobs, f, 1)
          /\ pending_jobs' = StillPending(pending_jobs, f, 1)
          /\ dropped_jobs' = dropped_jobs \cup
                {pending_jobs[k] : k \in {i \in 1..Len(pending_jobs) :
                                            f[i].kind \in {"finished_other", "failed"}}}
    /\ \E later \in (d_clock + 1)..timeout : d_clock' = later
    /\ UNCHANGED <<d_pc, domains, valid_domains, results, jobs, d_idx, attempt,
                   timeout, snapshots>>
    /\ UNCHANGED <<lvars, ovars, bvars, wvars, gvars, cvars>>

\* domain.py 943-980: the wait returns; second snapshot; unknown for the rest
WaitDone ==
    /\ d_pc = "wait"
    /\ ~(d_clock < timeout /\ pending_jobs # <<>>)
    /\ \E depth_ok \in BOOLEAN :
           snapshots' = ScheduleSnapshot(snapshots, depth_ok, "after_wait")
    /\ LET got == results \o completed_results IN
           results' = got \o MissingUnknown(valid_domains, ProcessedDomains(got))
    /\ d_pc' = "done"
    /\ UNCHANGED <<domains, valid_domains, jobs, d_idx, attempt, timeout, d_clock,
                   pending_jobs, completed_results, dropped_jobs>>
    /\ UNCHANGED <<lvars, ovars, bvars, wvars, gvars, cvars>>

DispNext == DispFilter \/ EnqueueOk \/ EnqueueFail \/ AfterEnqueue \/ PollRound \/ WaitDone

(***************************************************************************)
(* Idle-recheck supervisors (IdleRecheckManager) of the workers sharing    *)
(* one queue, the Redis recheck lock, and the workers' job loop.           *)
(* Time advances in steps of one poll interval; timers are kept relative:  *)
(* idle_duration[w] is time.time() - last_job_time of worker w (saturating *)
(* at the idle threshold), lock_ttl is the remaining TTL of the lock key   *)
(* (0: the key does not exist).                                            *)
(***************************************************************************)

IDLE_THRESHOLD_SECONDS == 60
RECHECK_POLL_INTERVAL == 30
RECHECK_BATCH_SIZE == 50
recheck_lock_ttl == 300

MaxQueue == 1          \* longest queue the model lets build up

Workers == {"w1", "w2"}
RecordOrder == <<"r1", "r2">>      \* the domain records, in primary-key order
Records == Range(RecordOrder)

NoJob == [kind |-> "none", fqdns |-> <<>>]
CheckJob == [kind |-> "check", fqdns |-> <<>>]
RecheckJob(batch) == [kind |-> "recheck", fqdns |-> batch]

Min(a, b) == IF a < b THEN a ELSE b
Max(a, b) == IF a > b THEN a ELSE b

RECURSIVE RecordsWith(_, _, _)
RecordsWith(order, db, state) ==
    IF order = <<>> THEN <<>>
    ELSE IF db[Head(order)] = state
         THEN <<Head(order)>> \o RecordsWith(Tail(order), db, state)
         ELSE RecordsWith(Tail(order), db, state)

Take(s, n) == SubSeq(s, 1, Min(n, Len(s)))

\* _get_stale_domains_async: never-checked records first, then the old ones
get_stale_domains(db, batch_size) ==
    LET never == Take(RecordsWith(RecordOrder, db, "null"), batch_size)
    IN  IF Len(never) < batch_size
        THEN never \o Take(RecordsWith(RecordOrder, db, "old"), batch_size - Len(never))
        ELSE never

\* mutation: the queue is taken to be idle whatever it holds
is_queue_idle_always(q) == TRUE

\* _is_queue_idle: Queue.is_empty() counts waiting jobs only
is_queue_idle(q) == q = <<>>

\* mutation: a plain SET, which overwrites the key and re-arms its TTL
SetAlwaysSucceeds(ttl) == TRUE

\* Redis SET key "locked" NX EX ttl: TRUE iff the key was absent
SetNxSucceeds(ttl) == ttl = 0

\* the record table at start: r1 checked long ago and r2 never, or nothing stale
InitialRecords ==
    {[r \in Records |-> IF r = "r1" THEN "old" ELSE "null"],
     [r \in Records |-> "fresh"]}

InitLockVars ==
    /\ s_pc = [w \in Workers |-> "sleep"]
    /\ idle_duration = [w \in Workers |-> 0]
    /\ lock_ttl = 0
    /\ lock_setter = "none"
    /\ stale_domains = [w \in Workers |-> <<>>]
    /\ queue = <<>>
    /\ running = [w \in Workers |-> NoJob]
    /\ db_last_checked \in InitialRecords
    /\ lost_release = FALSE

IdleLockVars ==
    /\ s_pc = [w \in Workers |-> "off"]
    /\ idle_duration = [w \in Workers |-> 0]
    /\ lock_ttl = 0
    /\ lock_setter = "none"
    /\ stale_domains = [w \in Workers |-> <<>>]
    /\ queue = <<>>
    /\ running = [w \in Workers |-> NoJob]
    /\ db_last_checked = [r \in Records |-> "fresh"]
    /\ lost_release = FALSE

\* One poll interval passes: idle clocks grow, the key's TTL runs down (Redis
\* removes the key when it reaches 0), sleeping supervisors become due.
Tick ==
    /\ \E w \in Workers : s_pc[w] # "off"
    /\ idle_duration' =
          [w \in Workers |->
              Min(idle_duration[w] + RECHECK_POLL_INTERVAL, IDLE_THRESHOLD_SECONDS)]
    /\ lock_ttl' = Max(lock_ttl - RECHECK_POLL_INTERVAL, 0)
    /\ lock_setter' = IF lock_ttl' = 0 THEN "none" ELSE lock_setter
    /\ s_pc' = [w \in Workers |-> IF s_pc[w] = "sleep" THEN "due" ELSE s_pc[w]]
    /\ UNCHANGED <<stale_domains, queue, running, db_last_checked, lost_release>>
    /\ UNCHANGED <<dvars, ovars, bvars, wvars, gvars, cvars>>

\* main.py 251-259: queue not idle resets the idle clock; idle threshold check
CheckIdle(w) ==
    /\ s_pc[w] = "due"
    /\ IF ~is_queue_idle(queue)
       THEN /\ idle_duration' = [idle_duration EXCEPT ![w] = 0]
            /\ s_pc' = [s_pc EXCEPT ![w] = "sleep"]
       ELSE /\ UNCHANGED idle_duration
            /\ s_pc' = [s_pc EXCEPT ![w] =
                  IF idle_duration[w] < IDLE_THRESHOLD_SECONDS THEN "sleep" ELSE "acquire"]
    /\ UNCHANGED <<lock_ttl, lock_setter, stale_domains, queue, running,
                   db_last_checked, lost_release>>
    /\ UNCHANGED <<dvars, ovars, bvars, wvars, gvars, cvars>>

\* main.py 218-232, 262-264: _acquire_recheck_lock
AcquireLock(w) ==
    /\ s_pc[w] = "acquire"
    /\ IF SetNxSucceeds(lock_ttl)
       THEN /\ lock_ttl' = recheck_lock_ttl
            /\ lock_setter' = w
            /\ s_pc' = [s_pc EXCEPT ![w] = "fetch"]
       ELSE /\ UNCHANGED <<lock_ttl, lock_setter>>
            /\ s_pc' = [s_pc EXCEPT ![w] = "sleep"]
    /\ UNCHANGED <<idle_duration, stale_domains, queue, running, db_last_checked,
                   lost_release>>
    /\ UNCHANGED <<dvars, ovars, bvars, wvars, gvars, cvars>>

\* main.py 161-167, 273-277: _get_stale_domains (a database error gives [])
FetchStale(w) ==
    /\ s_pc[w] = "fetch"
    /\ \E db_ok \in BOOLEAN :
          LET batch == IF db_ok
                       THEN get_stale_domains(db_last_checked, RECHECK_BATCH_SIZE)
                       ELSE <<>>
          IN  /\ stale_domains' = [stale_domains EXCEPT ![w] = batch]
              /\ s_pc' = [s_pc EXCEPT ![w] = IF batch = <<>> THEN "release" ELSE "enqueue"]
    /\ UNCHANGED <<idle_duration, lock_ttl, lock_setter, queue, running,
                   db_last_checked, lost_release>>
    /\ UNCHANGED <<dvars, ovars, bvars, wvars, gvars, cvars>>

\* main.py 282-291: enqueue the recheck job and reset the idle timer
EnqueueRecheck(w) ==
    /\ s_pc[w] = "enqueue"
    /\ Len(queue) < MaxQueue
    /\ queue' = Append(queue, RecheckJob(stale_domains[w]))
    /\ idle_duration' = [idle_duration EXCEPT ![w] = 0]
    /\ s_pc' = [s_pc EXCEPT ![w] = "release"]
    /\ UNCHANGED <<lock_ttl, lock_setter, stale_domains, running, db_last_checked,
                   lost_release>>
    /\ UNCHANGED <<dvars, ovars, bvars, wvars, gvars, cvars>>

\* main.py 234-236, 268-269: _release_recheck_lock is an unconditional DELETE
ReleaseLock(w) ==
    /\ s_pc[w] = "release"
    /\ lock_ttl' = 0
    /\ lock_setter' = "none"
    /\ lost_release' = (lost_release \/ (lock_ttl > 0 /\ lock_setter # w))
    /\ stale_domains' = [stale_domains EXCEPT ![w] = <<>>]
    /\ s_pc' = [s_pc EXCEPT ![w] = "sleep"]
    /\ UNCHANGED <<idle_duration, queue, running, db_last_checked>>
    /\ UNCHANGED <<dvars, ovars, bvars, wvars, gvars, cvars>>

\* the API enqueues a single-domain check job (domain.py 907-910)
ApiEnqueue ==
    /\ \E w \in Workers : s_pc[w] # "off"
    /\ Len(queue) < MaxQueue
    /\ queue' = Append(queue, CheckJob)
    /\ UNCHANGED <<s_pc, idle_duration, lock_ttl, lock_setter, stale_domains,
                   running, db_last_checked, lost_release>>
    /\ UNCHANGED <<dvars, ovars, bvars, wvars, gvars, cvars>>

\* the RQ job loop of worker w claims the job at the head of the queue
ClaimJob(w) ==
    /\ s_pc[w] # "off"
    /\ running[w] = NoJob
    /\ queue # <<>>
    /\ running' = [running EXCEPT ![w] = Head(queue)]
    /\ queue' = Tail(queue)
    /\ UNCHANGED <<s_pc, idle_duration, lock_ttl, lock_setter, stale_domains,
                   db_last_checked, lost_release>>
    /\ UNCHANGED <<dvars, ovars, bvars, wvars, gvars, cvars>>

\* main.py 79-131, 305-312: the job ends; a recheck job writes last_checked
\* back (unless the write-back raises); notify_job_completed resets the clock
FinishJob(w) ==
    /\ running[w] # NoJob
    /\ \E write_ok \in BOOLEAN :
          db_last_checked' =
              IF running[w].kind = "recheck" /\ write_ok
              THEN [r \in Records |->
                      IF r \in Range(running[w].fqdns) THEN "fresh"
                      ELSE db_last_checked[r]]
              ELSE db_last_checked
    /\ running' = [running EXCEPT ![w] = NoJob]
    /\ idle_duration' = [idle_duration EXCEPT ![w] = 0]
    /\ UNCHANGED <<s_pc, lock_ttl, lock_setter, stale_domains, queue, lost_release>>
    /\ UNCHANGED <<dvars, ovars, bvars, wvars, gvars, cvars>>

LockNext ==
    \/ Tick
    \/ ApiEnqueue
    \/ \E w \in Workers :
          \/ CheckIdle(w)
          \/ AcquireLock(w)
          \/ FetchStale(w)
          \/ EnqueueRecheck(w)
          \/ ReleaseLock(w)
          \/ ClaimJob(w)
          \/ FinishJob(w)

(***************************************************************************)
(* Suggestion orchestrator: suggest (batch) and suggest_stream (streaming).*)
(***************************************************************************)

MaxTarget == 2         \* largest request.count
MaxRetries == 2        \* largest MAX_SUGGESTIONS_RETRIES

OrchUniverse == {DomGoodA, DomGoodB}

\* GroqSuggestor.generate returns a non-empty list without duplicates
LlmOutputs ==
    {s \in UNION {[1..n -> OrchUniverse] : n \in 1..Cardinality(OrchUniverse)} :
        IsInjective(s)}

\* statuses enqueue_and_wait reports for a validator-accepted candidate: the
\* job result's status string is passed through unvalidated (domain.py
\* 567-571, 758-762), so besides the worker's own spellings it may be cased otherwise
DispatchStatuses == {"free", "registered", "non_conclusive", "FREE"}

\* a missing status (Python None)
None == "<None>"

\* arguments map_worker_status_to_domain_status is applied to
StatusValues ==
    DispatchStatuses \cup {"invalid", "unknown", "", "Registered", "pending", None}

\* str.lower on the status strings of StatusValues
lower(s) ==
    IF s = "FREE" THEN "free"
    ELSE IF s = "Registered" THEN "registered"
    ELSE s

Absent == "absent"
AVAILABLE == "available"
REGISTERED == "registered"
UNKNOWN == "unknown"

map_without_free(status_value) ==
    IF lower(status_value) = "registered" THEN REGISTERED ELSE UNKNOWN

map_worker_status_to_domain_status(status_value) ==
    LET normalized == lower(IF status_value = None THEN "" ELSE status_value)
    IN  IF normalized = "free" THEN AVAILABLE
        ELSE IF normalized = "registered" THEN REGISTERED
        ELSE IF normalized = "invalid" THEN UNKNOWN
        ELSE UNKNOWN

\* status_lookup.get(domain, "unknown")
LookupStatus(lookup, d) == IF lookup[d] = Absent THEN "unknown" ELSE lookup[d]

DomainSuggestion(d, st) == [domain |-> d, status |-> st]

\* mutation: the replaced entry moves to the end of the list
ReplaceAndMoveLast(acc, d, suggestion) ==
    SelectSeq(acc, LAMBDA e : e.domain # d) \o <<suggestion>>

RECURSIVE ReplaceFirst(_, _, _)
ReplaceFirst(acc, d, suggestion) ==
    IF acc = <<>> THEN <<>>
    ELSE IF Head(acc).domain = d THEN <<suggestion>> \o Tail(acc)
    ELSE <<Head(acc)>> \o ReplaceFirst(Tail(acc), d, suggestion)

RECURSIVE FilterToCheck(_, _)
FilterToCheck(plain, lookup) ==
    IF plain = <<>> THEN <<>>
    ELSE IF lookup[Head(plain)] = Absent \/ lookup[Head(plain)] # AVAILABLE
         THEN <<Head(plain)>> \o FilterToCheck(Tail(plain), lookup)
         ELSE FilterToCheck(Tail(plain), lookup)

\* domain.py 559-564: batch mode dispatches every LLM candidate
BatchDomainsToCheck(plain, lookup) == plain

\* domain.py 717-722: streaming skips candidates already accumulated as available
StreamDomainsToCheck(plain, lookup) == FilterToCheck(plain, lookup)

\* mutation: an existing entry is replaced whenever the new status differs
BatchAccumulateDowngrade(acc, lookup, avail, requested, d, st) ==
    IF lookup[d] # Absent
    THEN IF lookup[d] # st
         THEN [acc |-> ReplaceFirst(acc, d, DomainSuggestion(d, st)),
               lookup |-> [lookup EXCEPT ![d] = st],
               avail |-> IF st = AVAILABLE THEN avail + 1 ELSE avail,
               accepted |-> "update"]
         ELSE [acc |-> acc, lookup |-> lookup, avail |-> avail, accepted |-> "none"]
    ELSE IF st = AVAILABLE /\ avail >= requested
         THEN [acc |-> acc, lookup |-> lookup, avail |-> avail, accepted |-> "none"]
         ELSE [acc |-> Append(acc, DomainSuggestion(d, st)),
               lookup |-> [lookup EXCEPT ![d] = st],
               avail |-> IF st = AVAILABLE THEN avail + 1 ELSE avail,
               accepted |-> "new"]

\* mutation: an upgrade appends a second entry instead of replacing the first
StreamAccumulateAppendOnUpgrade(acc, lookup, avail, requested, d, st) ==
    IF lookup[d] # Absent
    THEN IF lookup[d] # AVAILABLE /\ st = AVAILABLE
         THEN [acc |-> Append(acc, DomainSuggestion(d, st)),
               lookup |-> [lookup EXCEPT ![d] = st],
               avail |-> avail + 1, accepted |-> "update"]
         ELSE [acc |-> acc, lookup |-> lookup, avail |-> avail, accepted |-> "none"]
    ELSE IF st = AVAILABLE /\ avail >= requested
         THEN [acc |-> acc, lookup |-> lookup, avail |-> avail, accepted |-> "none"]
         ELSE [acc |-> Append(acc, DomainSuggestion(d, st)),
               lookup |-> [lookup EXCEPT ![d] = st],
               avail |-> IF st = AVAILABLE THEN avail + 1 ELSE avail,
               accepted |-> "new"]

\* mutation: an upgrade replaces the entry without counting it
BatchAccumulateUncountedUpgrade(acc, lookup, avail, requested, d, st) ==
    IF lookup[d] # Absent
    THEN IF lookup[d] # AVAILABLE /\ st = AVAILABLE
         THEN [acc |-> ReplaceFirst(acc, d, DomainSuggestion(d, st)),
               lookup |-> [lookup EXCEPT ![d] = st],
               avail |-> avail, accepted |-> "update"]
         ELSE [acc |-> acc, lookup |-> lookup, avail |-> avail, accepted |-> "none"]
    ELSE IF st = AVAILABLE /\ avail >= requested
         THEN [acc |-> acc, lookup |-> lookup, avail |-> avail, accepted |-> "none"]
         ELSE [acc |-> Append(acc, DomainSuggestion(d, st)),
               lookup |-> [lookup EXCEPT ![d] = st],
               avail |-> IF st = AVAILABLE THEN avail + 1 ELSE avail,
               accepted |-> "new"]

\* mutation: an upgrade is refused once the target is reached
BatchAccumulateCappedUpgrade(acc, lookup, avail, requested, d, st) ==
    IF lookup[d] # Absent
    THEN IF lookup[d] # AVAILABLE /\ st = AVAILABLE /\ avail < requested
         THEN [acc |-> ReplaceFirst(acc, d, DomainSuggestion(d, st)),
               lookup |-> [lookup EXCEPT ![d] = st],
               avail |-> avail + 1, accepted |-> "update"]
         ELSE [acc |-> acc, lookup |-> lookup, avail |-> avail, accepted |-> "none"]
    ELSE IF st = AVAILABLE /\ avail >= requested
         THEN [acc |-> acc, lookup |-> lookup, avail |-> avail, accepted |-> "none"]
         ELSE [acc |-> Append(acc, DomainSuggestion(d, st)),
               lookup |-> [lookup EXCEPT ![d] = st],
               avail |-> IF st = AVAILABLE THEN avail + 1 ELSE avail,
               accepted |-> "new"]

\* mutation: an upgrade is announced as a newly accepted fqdn
StreamAccumulateUpgradeAsNew(acc, lookup, avail, requested, d, st) ==
    IF lookup[d] # Absent
    THEN IF lookup[d] # AVAILABLE /\ st = AVAILABLE
         THEN [acc |-> ReplaceFirst(acc, d, DomainSuggestion(d, st)),
               lookup |-> [lookup EXCEPT ![d] = st],
               avail |-> avail + 1, accepted |-> "new"]
         ELSE [acc |-> acc, lookup |-> lookup, avail |-> avail, accepted |-> "none"]
    ELSE IF st = AVAILABLE /\ avail >= requested
         THEN [acc |-> acc, lookup |-> lookup, avail |-> avail, accepted |-> "none"]
         ELSE [acc |-> Append(acc, DomainSuggestion(d, st)),
               lookup |-> [lookup EXCEPT ![d] = st],
               avail |-> IF st = AVAILABLE THEN avail + 1 ELSE avail,
               accepted |-> "new"]

\* mutation: a new available candidate is accepted beyond the target
StreamAccumulateUncapped(acc, lookup, avail, requested, d, st) ==
    IF lookup[d] # Absent
    THEN IF lookup[d] # AVAILABLE /\ st = AVAILABLE
         THEN [acc |-> ReplaceFirst(acc, d, DomainSuggestion(d, st)),
               lookup |-> [lookup EXCEPT ![d] = st],
               avail |-> avail + 1, accepted |-> "update"]
         ELSE [acc |-> acc, lookup |-> lookup, avail |-> avail, accepted |-> "none"]
    ELSE [acc |-> Append(acc, DomainSuggestion(d, st)),
          lookup |-> [lookup EXCEPT ![d] = st],
          avail |-> IF st = AVAILABLE THEN avail + 1 ELSE avail,
          accepted |-> "new"]

\* The body of the candidate loop, from the lookup of `existing` on.  Result:
\* the new accumulator, lookup and count, and what was accepted ("new",
\* "update" or "none").
\* domain.py 590-610 (batch)
BatchAccumulate(acc, lookup, avail, requested, d, st) ==
    IF lookup[d] # Absent
    THEN IF lookup[d] # AVAILABLE /\ st = AVAILABLE
         THEN [acc |-> ReplaceFirst(acc, d, DomainSuggestion(d, st)),
               lookup |-> [lookup EXCEPT ![d] = st],
               avail |-> avail + 1, accepted |-> "update"]
         ELSE [acc |-> acc, lookup |-> lookup, avail |-> avail, accepted |-> "none"]
    ELSE IF st = AVAILABLE /\ avail >= requested
         THEN [acc |-> acc, lookup |-> lookup, avail |-> avail, accepted |-> "none"]
         ELSE [acc |-> Append(acc, DomainSuggestion(d, st)),
               lookup |-> [lookup EXCEPT ![d] = st],
               avail |-> IF st = AVAILABLE THEN avail + 1 ELSE avail,
               accepted |-> "new"]

\* domain.py 790-845 (streaming)
StreamAccumulate(acc, lookup, avail, requested, d, st) ==
    IF lookup[d] # Absent
    THEN IF lookup[d] # AVAILABLE /\ st = AVAILABLE
         THEN [acc |-> ReplaceFirst(acc, d, DomainSuggestion(d, st)),
               lookup |-> [lookup EXCEPT ![d] = st],
               avail |-> avail + 1, accepted |-> "update"]
         ELSE [acc |-> acc, lookup |-> lookup, avail |-> avail, accepted |-> "none"]
    ELSE IF st = AVAILABLE /\ avail >= requested
         THEN [acc |-> acc, lookup |-> lookup, avail |-> avail, accepted |-> "none"]
         ELSE [acc |-> Append(acc, DomainSuggestion(d, st)),
               lookup |-> [lookup EXCEPT ![d] = st],
               avail |-> IF st = AVAILABLE THEN avail + 1 ELSE avail,
               accepted |-> "new"]

Event(type, new, updates, suggestions, avail, total) ==
    [type |-> type, new |-> new, updates |-> updates, suggestions |-> suggestions,
     available_count |-> avail, total |-> total]

StartEvent == Event("start", <<>>, <<>>, <<>>, 0, 0)

\* mutation: a failure is reported with a second kind of final event
ErrorEventAsComplete == Event("complete", <<>>, <<>>, <<>>, 0, 0)

ErrorEvent == Event("error", <<>>, <<>>, <<>>, 0, 0)

\* api_models.py 59: count: int = Field(default=10, ge=1, le=100)
CountDefault == 10
CountMin == 1
CountMax == 100
ValidCount(count) == count >= CountMin /\ count <= CountMax

\* utils.py 45: time_to_first_suggestion is None
NotStamped == [domain |-> <<>>, status |-> "not stamped"]

NoResponse == [kind |-> "none", suggestions |-> <<>>, total |-> 0]
\* the 422 reply of request validation; the handler is not entered
ValidationErrorResponse == [kind |-> "validation_error", suggestions |-> <<>>, total |-> 0]
RaisedResponse == [kind |-> "raised", suggestions |-> <<>>, total |-> 0]

\* domain.py 629-632: ResponseDomainSuggestion(suggestions, total)
ResponseDomainSuggestion(acc) ==
    [kind |-> "returned", suggestions |-> acc, total |-> Len(acc)]

\* mutation: the pass is not counted
NextRetriesStuck(r) == r

\* domain.py 615, 725, 850: retries += 1
NextRetries(r) == r + 1

\* mutation: the loop never breaks on the target, every pass is counted
TargetReachedNever(avail, requested) == FALSE

\* domain.py 612, 847: if available_count >= requested_count: break
TargetReached(avail, requested) == avail >= requested

\* mutation: the LLM error is swallowed and the accumulated list returned
BatchFailureSwallowed(acc) == ResponseDomainSuggestion(acc)

\* domain.py 553-555: batch mode re-raises; the accumulated list is not returned
BatchFailure(acc) == RaisedResponse

\* mutation: every accepted record stamps the time again
mark_every_time(stamped, suggestion) == suggestion

\* utils.py 117-120: mark_first_suggestion stamps only when nothing is stamped
mark_first_suggestion(stamped, suggestion) ==
    IF stamped = NotStamped THEN suggestion ELSE stamped

\* utils.py 55-59: the tracker's status counters at construction
NoStatusCounted == [st \in {AVAILABLE, REGISTERED, UNKNOWN} |-> 0]

\* utils.py 103-105: add_domain_status
add_domain_status(by_status, st) == [by_status EXCEPT ![st] = @ + 1]

\* utils.py 98-101: add_domains_generated (the set of generated fqdns)
add_domains_generated(unique, generated) == unique \cup Range(generated)

\* utils.py 134-159: the row MetricsTracker.save writes
SaveRow(by_status, unique, retry, llm, requested) ==
    [retry_count |-> retry,
     llm_call_count |-> llm,
     unique_domains_generated |-> Cardinality(unique),
     domains_returned |-> Cardinality(unique),
     available_domains_count |-> by_status[AVAILABLE],
     registered_domains_count |-> by_status[REGISTERED],
     unknown_domains_count |-> by_status[UNKNOWN],
     \* utils.py 135: available_count / requested_count, as a fraction
     success_rate |-> IF requested > 0
                      THEN [num |-> by_status[AVAILABLE], den |-> requested]
                      ELSE [num |-> 0, den |-> 1],
     reached_target |-> by_status[AVAILABLE] >= requested]

InitOrchVars ==
    /\ o_pc = "entry"
    /\ mode \in {"batch", "stream"}
    /\ requested_count \in 0..MaxTarget
    /\ max_retries \in 1..MaxRetries
    /\ retries = 0
    /\ accumulated = <<>>
    /\ accumulated_lookup = [d \in OrchUniverse |-> Absent]
    /\ available_count = 0
    /\ plain_domains = <<>>
    /\ domains_to_check = <<>>
    /\ status_lookup = [d \in OrchUniverse |-> Absent]
    /\ o_idx = 1
    /\ events = <<>>
    /\ response = NoResponse
    /\ retry_count = 0
    /\ llm_call_count = 0
    /\ saves_scheduled = 0
    /\ o_error = "none"
    /\ domains_by_status = NoStatusCounted
    /\ unique_domains = {}
    /\ metrics_rows = <<>>
    /\ statuses_seen = {}
    /\ suggestion_records = 0
    /\ first_suggestion_sent = FALSE
    /\ first_suggestion = NotStamped
    /\ persisted = [d \in OrchUniverse |-> Absent]

IdleOrchVars ==
    /\ o_pc = "off"
    /\ mode = "batch"
    /\ requested_count = 1
    /\ max_retries = 1
    /\ retries = 0
    /\ accumulated = <<>>
    /\ accumulated_lookup = [d \in OrchUniverse |-> Absent]
    /\ available_count = 0
    /\ plain_domains = <<>>
    /\ domains_to_check = <<>>
    /\ status_lookup = [d \in OrchUniverse |-> Absent]
    /\ o_idx = 1
    /\ events = <<>>
    /\ response = NoResponse
    /\ retry_count = 0
    /\ llm_call_count = 0
    /\ saves_scheduled = 0
    /\ o_error = "none"
    /\ domains_by_status = NoStatusCounted
    /\ unique_domains = {}
    /\ metrics_rows = <<>>
    /\ statuses_seen = {}
    /\ suggestion_records = 0
    /\ first_suggestion_sent = FALSE
    /\ first_suggestion = NotStamped
    /\ persisted = [d \in OrchUniverse |-> Absent]

\* domain.py 533-547 (batch entry); 647-680 (streaming: create the suggestion
\* record, then the start event, or an error event when the create fails)
Entry ==
    /\ o_pc = "entry"
    /\ ValidCount(requested_count)
    /\ requested_count' = IF requested_count = 0 THEN CountDefault ELSE requested_count
    /\ IF mode = "batch"
       THEN /\ o_pc' = "loop"
            /\ UNCHANGED <<events, o_error, suggestion_records>>
       ELSE \E create_ok \in BOOLEAN :
               IF create_ok
               THEN /\ suggestion_records' = suggestion_records + 1
                    /\ events' = Append(events, StartEvent)
                    /\ o_pc' = "loop"
                    /\ UNCHANGED o_error
               ELSE /\ events' = Append(events, ErrorEvent)
                    /\ o_pc' = "done"
                    /\ o_error' = "create"
                    /\ UNCHANGED suggestion_records
    /\ UNCHANGED <<mode, max_retries, retries, accumulated,
                   accumulated_lookup, available_count, plain_domains,
                   domains_to_check, status_lookup, o_idx, response, retry_count,
                   llm_call_count, saves_scheduled>>
    /\ UNCHANGED mvars
    /\ UNCHANGED <<statuses_seen, first_suggestion_sent, first_suggestion, persisted>>
    /\ UNCHANGED <<dvars, lvars, bvars, wvars, gvars, cvars>>

\* api_models.py 57-61, domain.py 527-531 / 635-636: the request body is
\* validated into RequestDomainSuggestion before the handler runs; a count
\* outside ge=1, le=100 is answered with a validation error
RejectRequest ==
    /\ o_pc = "entry"
    /\ ~ValidCount(requested_count)
    /\ response' = ValidationErrorResponse
    /\ o_error' = "validation"
    /\ o_pc' = "done"
    /\ UNCHANGED <<mode, requested_count, max_retries, retries, accumulated,
                   accumulated_lookup, available_count, plain_domains,
                   domains_to_check, status_lookup, o_idx, events, retry_count,
                   llm_call_count, saves_scheduled>>
    /\ UNCHANGED mvars
    /\ UNCHANGED statuses_seen
    /\ UNCHANGED pvars
    /\ UNCHANGED <<dvars, lvars, bvars, wvars, gvars, cvars>>

\* domain.py 548-560 / 683-728: the LLM call of a pass returns a list
LlmReturns ==
    /\ o_pc = "loop"
    /\ retries < max_retries
    /\ llm_call_count' = llm_call_count + 1
    /\ \E suggestions \in LlmOutputs :
          /\ plain_domains' = suggestions
          /\ unique_domains' = add_domains_generated(unique_domains, suggestions)
          /\ IF mode = "batch"
             THEN /\ domains_to_check' = BatchDomainsToCheck(suggestions, accumulated_lookup)
                  /\ o_pc' = "dispatch"
                  /\ UNCHANGED <<retries, retry_count>>
             ELSE /\ domains_to_check' = StreamDomainsToCheck(suggestions, accumulated_lookup)
                  /\ IF domains_to_check' = <<>>
                     THEN /\ retries' = NextRetries(retries)
                          /\ retry_count' = retry_count + 1
                          /\ o_pc' = "loop"
                     ELSE /\ o_pc' = "dispatch"
                          /\ UNCHANGED <<retries, retry_count>>
    /\ UNCHANGED <<mode, requested_count, max_retries, accumulated,
                   accumulated_lookup, available_count, status_lookup, o_idx,
                   events, response, saves_scheduled, o_error>>
    /\ UNCHANGED <<domains_by_status, metrics_rows>>
    /\ UNCHANGED statuses_seen
    /\ UNCHANGED pvars
    /\ UNCHANGED <<dvars, lvars, bvars, wvars, gvars, cvars>>

\* domain.py 553-555 (batch: re-raised) / 688-709 (streaming: error event, return)
LlmRaises ==
    /\ o_pc = "loop"
    /\ retries < max_retries
    /\ llm_call_count' = llm_call_count + 1
    /\ IF mode = "batch"
       THEN /\ response' = BatchFailure(accumulated)
            /\ UNCHANGED events
       ELSE /\ events' = Append(events, ErrorEvent)
            /\ UNCHANGED response
    /\ o_error' = "llm"
    /\ o_pc' = "done"
    /\ UNCHANGED <<mode, requested_count, max_retries, retries, accumulated,
                   accumulated_lookup, available_count, plain_domains,
                   domains_to_check, status_lookup, o_idx, retry_count,
                   saves_scheduled>>
    /\ UNCHANGED mvars
    /\ UNCHANGED statuses_seen
    /\ UNCHANGED pvars
    /\ UNCHANGED <<dvars, lvars, bvars, wvars, gvars, cvars>>

\* domain.py 564-571 / 733, 758-762: enqueue_and_wait returns, status_lookup
DispatchReturns ==
    /\ o_pc = "dispatch"
    /\ \E st \in [Range(domains_to_check) -> DispatchStatuses] :
          status_lookup' = [d \in OrchUniverse |->
                               IF d \in Range(domains_to_check) THEN st[d] ELSE Absent]
    /\ o_idx' = 1
    /\ o_pc' = "process"
    /\ UNCHANGED <<mode, requested_count, max_retries, retries, accumulated,
                   accumulated_lookup, available_count, plain_domains,
                   domains_to_check, events, response, retry_count, llm_call_count,
                   saves_scheduled, o_error>>
    /\ UNCHANGED mvars
    /\ UNCHANGED statuses_seen
    /\ UNCHANGED pvars
    /\ UNCHANGED <<dvars, lvars, bvars, wvars, gvars, cvars>>

\* domain.py 564 (batch: not caught) / 734-753 (streaming: error event, return)
DispatchRaises ==
    /\ o_pc = "dispatch"
    /\ IF mode = "batch"
       THEN /\ response' = BatchFailure(accumulated)
            /\ UNCHANGED events
       ELSE /\ events' = Append(events, ErrorEvent)
            /\ UNCHANGED response
    /\ o_error' = "dispatch"
    /\ o_pc' = "done"
    /\ UNCHANGED <<mode, requested_count, max_retries, retries, accumulated,
                   accumulated_lookup, available_count, plain_domains,
                   domains_to_check, status_lookup, o_idx, retry_count,
                   llm_call_count, saves_scheduled>>
    /\ UNCHANGED mvars
    /\ UNCHANGED statuses_seen
    /\ UNCHANGED pvars
    /\ UNCHANGED <<dvars, lvars, bvars, wvars, gvars, cvars>>

\* domain.py 575-610: one iteration of the batch candidate loop
ProcessBatch ==
    /\ o_pc = "process"
    /\ mode = "batch"
    /\ o_idx <= Len(plain_domains)
    /\ LET d == plain_domains[o_idx]
           st == map_worker_status_to_domain_status(LookupStatus(status_lookup, d))
           r == BatchAccumulate(accumulated, accumulated_lookup, available_count,
                                requested_count, d, st)
       IN  /\ accumulated' = r.acc
           /\ accumulated_lookup' = r.lookup
           /\ available_count' = r.avail
           /\ domains_by_status' = add_domain_status(domains_by_status, st)
    /\ o_idx' = o_idx + 1
    /\ UNCHANGED <<o_pc, mode, requested_count, max_retries, retries, plain_domains,
                   domains_to_check, status_lookup, events, response, retry_count,
                   llm_call_count, saves_scheduled, o_error>>
    /\ UNCHANGED <<unique_domains, metrics_rows>>
    /\ UNCHANGED pvars
    /\ statuses_seen' =
         LET d == plain_domains[o_idx]
         IN  IF status_lookup[d] = Absent THEN statuses_seen
             ELSE statuses_seen \cup {status_lookup[d]}
    /\ UNCHANGED <<dvars, lvars, bvars, wvars, gvars, cvars>>

\* domain.py 766-845: one iteration of the streaming candidate loop
ProcessStream ==
    /\ o_pc = "process"
    /\ mode = "stream"
    /\ o_idx <= Len(plain_domains)
    /\ LET d == plain_domains[o_idx]
           st == map_worker_status_to_domain_status(LookupStatus(status_lookup, d))
           r == StreamAccumulate(accumulated, accumulated_lookup, available_count,
                                 requested_count, d, st)
       IN  IF d \notin Range(domains_to_check) /\ accumulated_lookup[d] = Absent
           THEN UNCHANGED <<accumulated, accumulated_lookup, available_count, events,
                            domains_by_status, first_suggestion_sent,
                            first_suggestion, persisted>>
           ELSE /\ domains_by_status' = add_domain_status(domains_by_status, st)
                \* domain.py 785-788, 803-806: upsert_domain_in_db(domain, status_enum, ...)
                \* (a failing upsert is logged and skipped)
                /\ \E stored \in BOOLEAN :
                      persisted' = IF stored THEN [persisted EXCEPT ![d] = st]
                                   ELSE persisted
                \* domain.py 808-810, 832-834
                /\ first_suggestion_sent' = (first_suggestion_sent \/ r.accepted # "none")
                /\ first_suggestion' =
                     IF r.accepted # "none" /\ ~first_suggestion_sent
                     THEN mark_first_suggestion(first_suggestion, DomainSuggestion(d, st))
                     ELSE first_suggestion
                /\ accumulated' = r.acc
                /\ accumulated_lookup' = r.lookup
                /\ available_count' = r.avail
                /\ events' =
                     IF r.accepted = "new"
                     THEN Append(events, Event("suggestions", <<DomainSuggestion(d, st)>>,
                                               <<>>, <<>>, r.avail, Len(r.acc)))
                     ELSE IF r.accepted = "update"
                     THEN Append(events, Event("suggestions", <<>>,
                                               <<DomainSuggestion(d, st)>>, <<>>,
                                               r.avail, Len(r.acc)))
                     ELSE events
    /\ o_idx' = o_idx + 1
    /\ UNCHANGED <<o_pc, mode, requested_count, max_retries, retries, plain_domains,
                   domains_to_check, status_lookup, response, retry_count,
                   llm_call_count, saves_scheduled, o_error>>
    /\ UNCHANGED <<unique_domains, metrics_rows>>
    /\ UNCHANGED suggestion_records
    /\ statuses_seen' =
         LET d == plain_domains[o_idx]
         IN  IF status_lookup[d] = Absent THEN statuses_seen
             ELSE statuses_seen \cup {status_lookup[d]}
    /\ UNCHANGED <<dvars, lvars, bvars, wvars, gvars, cvars>>

\* domain.py 612-616 / 847-852: end of a pass: break on target, else count it
EndPass ==
    /\ o_pc = "process"
    /\ o_idx > Len(plain_domains)
    /\ IF TargetReached(available_count, requested_count)
       THEN /\ o_pc' = "finish"
            /\ UNCHANGED <<retries, retry_count>>
       ELSE /\ retries' = NextRetries(retries)
            /\ retry_count' = retry_count + 1
            /\ o_pc' = "loop"
    \* the locals of the pass are dead until the next pass assigns them
    /\ plain_domains' = <<>>
    /\ domains_to_check' = <<>>
    /\ status_lookup' = [d \in OrchUniverse |-> Absent]
    /\ o_idx' = 1
    /\ UNCHANGED <<mode, requested_count, max_retries, accumulated,
                   accumulated_lookup, available_count, events, response,
                   llm_call_count, saves_scheduled, o_error>>
    /\ UNCHANGED mvars
    /\ UNCHANGED statuses_seen
    /\ UNCHANGED pvars
    /\ UNCHANGED <<dvars, lvars, bvars, wvars, gvars, cvars>>

\* domain.py 618-632 (batch: schedule store_suggestion_batch, return the list)
\* domain.py 855-866 (streaming: schedule metrics.save, complete event)
Finish ==
    /\ \/ o_pc = "finish"
       \/ o_pc = "loop" /\ ~(retries < max_retries)
    /\ saves_scheduled' = saves_scheduled + 1
    /\ IF mode = "batch"
       THEN /\ response' = ResponseDomainSuggestion(accumulated)
            /\ UNCHANGED events
            \* utils.py 369-375: the scheduled store_suggestion_batch creates
            \* the suggestion record, or fails and logs
            /\ \E created \in BOOLEAN :
                  suggestion_records' = suggestion_records + (IF created THEN 1 ELSE 0)
       ELSE /\ events' = Append(events, Event("complete", <<>>, <<>>, accumulated,
                                              available_count, Len(accumulated)))
            /\ UNCHANGED <<response, suggestion_records>>
    /\ o_pc' = "done"
    /\ UNCHANGED <<mode, requested_count, max_retries, retries, accumulated,
                   accumulated_lookup, available_count, plain_domains,
                   domains_to_check, status_lookup, o_idx, retry_count,
                   llm_call_count, o_error>>
    /\ metrics_rows' = Append(metrics_rows,
                              SaveRow(domains_by_status, unique_domains, retry_count,
                                      llm_call_count, requested_count))
    /\ UNCHANGED <<domains_by_status, unique_domains>>
    /\ UNCHANGED <<statuses_seen, first_suggestion_sent, first_suggestion, persisted>>
    /\ UNCHANGED <<dvars, lvars, bvars, wvars, gvars, cvars>>

\* domain.py 868-875: an exception other than the LLM's or the dispatcher's
\* escapes the streaming loop (766-852) or the building of the complete
\* event (859-866, after the save was scheduled at 855-857): error event
UnexpectedRaises ==
    /\ mode = "stream"
    /\ \/ /\ o_pc = "process"
          /\ UNCHANGED <<saves_scheduled, metrics_rows>>
       \/ /\ \/ o_pc = "finish"
             \/ o_pc = "loop" /\ ~(retries < max_retries)
          /\ saves_scheduled' = saves_scheduled + 1
          /\ metrics_rows' = Append(metrics_rows,
                                    SaveRow(domains_by_status, unique_domains,
                                            retry_count, llm_call_count,
                                            requested_count))
    /\ events' = Append(events, ErrorEvent)
    /\ o_error' = "unexpected"
    /\ o_pc' = "done"
    /\ UNCHANGED <<mode, requested_count, max_retries, retries, accumulated,
                   accumulated_lookup, available_count, plain_domains,
                   domains_to_check, status_lookup, o_idx, response, retry_count,
                   llm_call_count>>
    /\ UNCHANGED <<domains_by_status, unique_domains>>
    /\ UNCHANGED statuses_seen
    /\ UNCHANGED pvars
    /\ UNCHANGED <<dvars, lvars, bvars, wvars, gvars, cvars>>

OrchNext ==
    \/ Entry
    \/ RejectRequest
    \/ LlmReturns
    \/ LlmRaises
    \/ DispatchReturns
    \/ DispatchRaises
    \/ ProcessBatch
    \/ ProcessStream
    \/ EndPass
    \/ Finish
    \/ UnexpectedRaises

(***************************************************************************)
(* Domain records and their writers: the API's upsert_domain_in_db and     *)
(* update_domain_in_db coroutines (api/utils.py), which yield at every     *)
(* await, and the worker's job handlers (worker main.py, logic.py) with    *)
(* the write-back of a recheck job.  db_now is the wall clock.             *)
(***************************************************************************)
MaxNow == 2            \* last clock value
MaxJob == 2            \* longest domain list of a worker job

DbUniverse == {DomGoodA, DomGoodB}
\* the fqdn the API coroutines write; the worker job also touches the other
ApiDomains == {DomGoodA}
ApiOps == {"op1", "op2"}
SuggestionIds == {1, 2}
NoSuggestion == 0      \* suggestion_id IS NULL

NoRow == [exists |-> FALSE]

\* db_models.py 95-125: the columns of a domain record the writers touch.
\* History: writer is the operation that wrote the row last, and repeated
\* tells that this write was an upsert of the status the upsert before it
\* wrote, called after that one returned and with no other write in between.
Row(st, checked, created, sid, who) ==
    [exists |-> TRUE, status |-> st, last_checked |-> checked,
     created_at |-> created, suggestion_id |-> sid, writer |-> who,
     repeated |-> FALSE]

\* rows already stored when the model starts
SeedRows == {NoRow, Row(UNKNOWN, 0, 0, NoSuggestion, "seed")}

IdleOp == [pc |-> "idle"]
OffOp == [pc |-> "off"]
DoneOp == [pc |-> "done"]
RaisedOp == [pc |-> "raised"]

\* utils.py 286-287 / 325-326: the arguments and `now`, taken before the read
StartedOp(kind, d, st, sid, now, base) ==
    [pc |-> "read", kind |-> kind, domain |-> d, status |-> st,
     suggestion_id |-> sid, now |-> now, found |-> NoRow, base |-> base]

\* the call repeats, in sequence, the upsert that wrote `current`
RepeatsUpsert(op, current) ==
    /\ op.kind = "upsert"
    /\ op.base.exists
    /\ op.base.writer = "upsert"
    /\ op.base.status = op.status
    /\ current = op.base

\* mutation: the back-reference is overwritten by every upsert
SavedRowRelinked(op, current) ==
    [op.found EXCEPT
        !.status = op.status,
        !.last_checked = op.now,
        !.suggestion_id = IF op.kind = "upsert" THEN op.suggestion_id ELSE @,
        !.writer = op.kind,
        !.repeated = RepeatsUpsert(op, current)]

\* utils.py 292-298 / 331-334: the loaded object with the new values, as saved
SavedRow(op, current) ==
    [op.found EXCEPT
        !.status = op.status,
        !.last_checked = op.now,
        !.suggestion_id = IF op.kind = "upsert" /\ @ = NoSuggestion
                          THEN op.suggestion_id ELSE @,
        !.writer = op.kind,
        !.repeated = RepeatsUpsert(op, current)]

\* utils.py 300-307 / 336-342: DomainDB.create; created_at is auto_now_add
CreatedRow(op, created) ==
    Row(op.status, op.now, created,
        IF op.kind = "upsert" THEN op.suggestion_id ELSE NoSuggestion, op.kind)

\* logic.py 100-140 returns one of these or raises
ProbeOutcomes == {"free", "registered", "non conclusive", "raise"}

\* mutation: a failing probe produces no result
NoResultOnError(d, outcome) ==
    IF outcome = "raise" THEN <<>> ELSE <<[domain |-> d, status |-> outcome]>>

\* logic.py 51-58: _check_single_domain, as the list of results it contributes
check_single_domain(d, outcome) ==
    <<[domain |-> d, status |-> IF outcome = "raise" THEN "invalid" ELSE outcome]>>

\* main.py 112-118: the worker's own status mapping
db_status(status) ==
    IF status = "free" THEN AVAILABLE
    ELSE IF status = "registered" THEN REGISTERED
    ELSE UNKNOWN

JobInputs == UNION {[1..n -> DbUniverse] : n \in 0..MaxJob}

NotReturned == <<[domain |-> <<>>, status |-> "not returned"]>>

\* mutation: a failed write-back loses the results
ReturnNothingOnFailure(res, failed) == IF failed THEN <<>> ELSE res

\* main.py 76 / 95: [result.model_dump() for result in results]
model_dump(res, failed) == res

InitDbVars ==
    /\ db_rows \in [DbUniverse -> SeedRows]
    /\ \A d \in DbUniverse \ ApiDomains : db_rows[d] = NoRow
    /\ db_now = 0
    /\ api_ops = [o \in ApiOps |-> IdleOp]

\* stored rows and no API coroutine
SeededDbVars ==
    /\ db_rows \in [DbUniverse -> SeedRows]
    /\ db_now = 0
    /\ api_ops = [o \in ApiOps |-> OffOp]

IdleDbVars ==
    /\ db_rows = [d \in DbUniverse |-> NoRow]
    /\ db_now = 0
    /\ api_ops = [o \in ApiOps |-> OffOp]

InitJobVars ==
    /\ j_pc = "start"
    /\ j_kind \in {"check", "recheck"}
    /\ j_domains \in JobInputs
    /\ j_pending = {}
    /\ j_results = <<>>
    /\ j_probes = <<>>
    /\ wb_now = 0
    /\ wb_idx = 1
    /\ wb_failed = FALSE
    /\ j_returned = NotReturned

\* a recheck job for the fqdn the API writes (main.py 288-296)
InitRecheckJob ==
    /\ j_pc = "start"
    /\ j_kind = "recheck"
    /\ j_domains \in [1..1 -> ApiDomains]
    /\ j_pending = {}
    /\ j_results = <<>>
    /\ j_probes = <<>>
    /\ wb_now = 0
    /\ wb_idx = 1
    /\ wb_failed = FALSE
    /\ j_returned = NotReturned

IdleJobVars ==
    /\ j_pc = "off"
    /\ j_kind = "check"
    /\ j_domains = <<>>
    /\ j_pending = {}
    /\ j_results = <<>>
    /\ j_probes = <<>>
    /\ wb_now = 0
    /\ wb_idx = 1
    /\ wb_failed = FALSE
    /\ j_returned = NotReturned

\* what datetime.now() can return when the last reading was t: time passes
\* between two readings or it does not
Later(t) == {u \in {t, t + 1} : u <= MaxNow}

\* utils.py 271-287 / 312-326: a call of upsert_domain_in_db or
\* update_domain_in_db up to its first await
ApiBegin(o) ==
    /\ api_ops[o].pc = "idle"
    /\ o = "op2" => api_ops["op1"].pc # "idle"    \* the coroutines are alike
    /\ \E kind \in {"upsert", "update"}, d \in ApiDomains,
          st \in {AVAILABLE, UNKNOWN}, sid \in SuggestionIds, now \in Later(db_now) :
          /\ kind = "update" => sid = 1
          /\ api_ops' = [api_ops EXCEPT
                            ![o] = StartedOp(kind, d, st,
                                             IF kind = "upsert" THEN sid ELSE NoSuggestion,
                                             now, db_rows[d])]
          /\ db_now' = now
    /\ UNCHANGED db_rows
    /\ UNCHANGED <<dvars, lvars, ovars, wvars, gvars, cvars>>

\* utils.py 289 / 328: domain_obj = await DomainDB.get_or_none(domain=domain)
ApiRead(o) ==
    /\ api_ops[o].pc = "read"
    /\ api_ops' = [api_ops EXCEPT ![o].found = db_rows[api_ops[o].domain],
                                  ![o].pc = "write"]
    /\ UNCHANGED <<db_rows, db_now>>
    /\ UNCHANGED <<dvars, lvars, ovars, wvars, gvars, cvars>>

\* utils.py 291-309 / 330-344: save the loaded object, or create the record;
\* creating a record whose primary key exists raises
ApiWrite(o) ==
    /\ api_ops[o].pc = "write"
    /\ LET op == api_ops[o]
       IN  IF op.found.exists
           THEN /\ db_rows' = [db_rows EXCEPT ![op.domain] =
                                               SavedRow(op, db_rows[op.domain])]
                /\ api_ops' = [api_ops EXCEPT ![o] = DoneOp]
                /\ UNCHANGED db_now
           ELSE IF db_rows[op.domain].exists
           THEN /\ api_ops' = [api_ops EXCEPT ![o] = RaisedOp]
                /\ UNCHANGED <<db_rows, db_now>>
           ELSE \E created \in Later(db_now) :
                   /\ db_rows' = [db_rows EXCEPT ![op.domain] = CreatedRow(op, created)]
                   /\ api_ops' = [api_ops EXCEPT ![o] = DoneOp]
                   /\ db_now' = created
    /\ UNCHANGED <<dvars, lvars, ovars, wvars, gvars, cvars>>

\* logic.py 66-81: check_domains up to the submission of the probes
CheckDomainsBegin ==
    /\ j_pc = "start"
    /\ IF j_domains = <<>>
       THEN j_pc' = "checked" /\ UNCHANGED j_pending
       ELSE j_pc' = "probing" /\ j_pending' = 1..Len(j_domains)
    /\ j_probes' = [i \in 1..Len(j_domains) |-> "not run"]
    /\ UNCHANGED <<j_kind, j_domains, j_results, wb_now, wb_idx, wb_failed, j_returned>>
    /\ UNCHANGED <<dvars, lvars, ovars, bvars, gvars, cvars>>

\* logic.py 70-71, 84-95: one probe finishes (in any order) and its result is
\* collected
ProbeCompletes ==
    /\ j_pc = "probing"
    /\ \E i \in j_pending, outcome \in ProbeOutcomes :
          /\ j_results' = j_results \o check_single_domain(j_domains[i], outcome)
          /\ j_probes' = [j_probes EXCEPT ![i] = outcome]
          /\ j_pending' = j_pending \ {i}
          /\ j_pc' = IF j_pending = {i} THEN "checked" ELSE "probing"
    /\ UNCHANGED <<j_kind, j_domains, wb_now, wb_idx, wb_failed, j_returned>>
    /\ UNCHANGED <<dvars, lvars, ovars, bvars, gvars, cvars>>

\* main.py 71-76: handle_domain_check returns the dumped results
HandleCheckReturns ==
    /\ j_pc = "checked"
    /\ j_kind = "check"
    /\ j_returned' = model_dump(j_results, FALSE)
    /\ j_pc' = "done"
    /\ UNCHANGED <<j_kind, j_domains, j_pending, j_results, j_probes, wb_now, wb_idx,
                   wb_failed>>
    /\ UNCHANGED <<dvars, lvars, ovars, bvars, gvars, cvars>>

\* main.py 90-91, 98-108: asyncio.run(_update_domain_statuses_async(results))
\* up to the timestamp; nothing to do for an empty list
WriteBackBegin ==
    /\ j_pc = "checked"
    /\ j_kind = "recheck"
    /\ IF j_results = <<>>
       THEN j_pc' = "return" /\ UNCHANGED <<wb_now, db_now>>
       ELSE /\ j_pc' = "rows"
            /\ \E now \in Later(db_now) : wb_now' = now /\ db_now' = now
    /\ UNCHANGED <<j_kind, j_domains, j_pending, j_results, j_probes, wb_idx,
                   wb_failed, j_returned>>
    /\ UNCHANGED <<db_rows, api_ops>>
    /\ UNCHANGED <<dvars, lvars, ovars, gvars, cvars>>

\* main.py 111-127: one UPDATE ... WHERE domain = result.domain
WriteBackRow ==
    /\ j_pc = "rows"
    /\ wb_idx <= Len(j_results)
    /\ LET r == j_results[wb_idx]
       IN  db_rows' =
             IF db_rows[r.domain].exists
             THEN [db_rows EXCEPT ![r.domain].status = db_status(r.status),
                                  ![r.domain].last_checked = wb_now,
                                  ![r.domain].writer = "recheck",
                                  ![r.domain].repeated = FALSE]
             ELSE db_rows
    /\ wb_idx' = wb_idx + 1
    /\ UNCHANGED <<db_now, api_ops>>
    /\ UNCHANGED <<j_pc, j_kind, j_domains, j_pending, j_results, j_probes, wb_now,
                   wb_failed, j_returned>>
    /\ UNCHANGED <<dvars, lvars, ovars, gvars, cvars>>

\* main.py 129-131: all rows written
WriteBackEnd ==
    /\ j_pc = "rows"
    /\ wb_idx > Len(j_results)
    /\ j_pc' = "return"
    /\ UNCHANGED <<j_kind, j_domains, j_pending, j_results, j_probes, wb_now, wb_idx,
                   wb_failed, j_returned>>
    /\ UNCHANGED <<dvars, lvars, ovars, bvars, gvars, cvars>>

\* main.py 90-93: the write-back raises (connection, Tortoise.init, an UPDATE)
\* and handle_domain_recheck logs the exception
WriteBackRaises ==
    /\ \/ j_pc = "checked" /\ j_kind = "recheck" /\ j_results # <<>>
       \/ j_pc = "rows" /\ wb_idx <= Len(j_results)
    /\ wb_failed' = TRUE
    /\ j_pc' = "return"
    /\ UNCHANGED <<j_kind, j_domains, j_pending, j_results, j_probes, wb_now, wb_idx,
                   j_returned>>
    /\ UNCHANGED <<dvars, lvars, ovars, bvars, gvars, cvars>>

\* main.py 95: handle_domain_recheck returns the dumped results
RecheckReturns ==
    /\ j_pc = "return"
    /\ j_returned' = model_dump(j_results, wb_failed)
    /\ j_pc' = "done"
    /\ UNCHANGED <<j_kind, j_domains, j_pending, j_results, j_probes, wb_now, wb_idx,
                   wb_failed>>
    /\ UNCHANGED <<dvars, lvars, ovars, bvars, gvars, cvars>>

JobNext ==
    \/ CheckDomainsBegin
    \/ ProbeCompletes
    \/ HandleCheckReturns
    \/ WriteBackBegin
    \/ WriteBackRow
    \/ WriteBackEnd
    \/ WriteBackRaises
    \/ RecheckReturns

DbNext ==
    \/ \E o \in ApiOps : ApiBegin(o) \/ ApiRead(o) \/ ApiWrite(o)
    \/ CheckDomainsBegin
    \/ ProbeCompletes
    \/ WriteBackBegin
    \/ WriteBackRow
    \/ WriteBackEnd
    \/ WriteBackRaises
    \/ RecheckReturns

(***************************************************************************)
(* The LLM client: one invocation of GroqSuggestor.generate, and what the  *)
(* streaming handler does with its failure.                                *)
(***************************************************************************)
\* groq.py 13
MAX_RETRIES == 3

\* what one call of _make_request (groq.py 117-172) can do: return a list
\* (after sanitizing, possibly empty) or raise; APIStatusError is split by
\* its status_code as line 93 splits it
RequestOutcomes ==
    {"list", "empty", "RateLimitError", "APIConnectionError", "APITimeoutError",
     "APIStatusError 4xx", "APIStatusError 5xx", "JSONDecodeError", "ValueError"}

\* exceptions.py 48-93: the exception classes generate raises, with their code
ServiceUnavailableError == [class |-> "ServiceUnavailableError", code |-> "service_unavailable"]
RateLimitedError == [class |-> "RateLimitedError", code |-> "rate_limited"]
GenerationFailedError == [class |-> "GenerationFailedError", code |-> "generation_failed"]

NoLlmResult == [kind |-> "none"]
Returned == [kind |-> "returned"]
Raised(error) == [kind |-> "raised", error |-> error]

\* mutation: a client error is retried like a server error
after_attempt_retrying_4xx(outcome, attempt_no) ==
    IF outcome = "list" THEN [do |-> "return"]
    ELSE IF attempt_no < MAX_RETRIES - 1 THEN [do |-> "continue"]
    ELSE IF outcome = "RateLimitError"
    THEN [do |-> "raise", error |-> RateLimitedError]
    ELSE IF outcome \in {"APIConnectionError", "APITimeoutError",
                         "APIStatusError 4xx", "APIStatusError 5xx"}
    THEN [do |-> "raise", error |-> ServiceUnavailableError]
    ELSE [do |-> "raise", error |-> GenerationFailedError]

\* groq.py 53-115: the body of the for loop for one attempt, and the raise
\* after the loop when the last attempt neither returned nor raised
after_attempt(outcome, attempt_no) ==
    IF outcome = "list" THEN [do |-> "return"]
    ELSE IF outcome = "APIStatusError 4xx"
    THEN [do |-> "raise", error |-> GenerationFailedError]
    ELSE IF attempt_no < MAX_RETRIES - 1 THEN [do |-> "continue"]
    ELSE IF outcome = "RateLimitError"
    THEN [do |-> "raise", error |-> RateLimitedError]
    ELSE IF outcome \in {"APIConnectionError", "APITimeoutError", "APIStatusError 5xx"}
    THEN [do |-> "raise", error |-> ServiceUnavailableError]
    ELSE [do |-> "raise", error |-> GenerationFailedError]

\* mutation: every failure is reported as a failed generation
error_event_generic(error) == [type |-> "error", code |-> "generation_failed"]

\* domain.py 688-699: ErrorResponse(code=e.code, ...) sent as an `error` event
error_event(error) == [type |-> "error", code |-> error.code]

InitLlmVars ==
    /\ g_pc = "attempt"
    /\ g_attempt = 0
    /\ g_outcomes = <<>>
    /\ g_result = NoLlmResult
    /\ g_events = <<>>

IdleLlmVars ==
    /\ g_pc = "off"
    /\ g_attempt = 0
    /\ g_outcomes = <<>>
    /\ g_result = NoLlmResult
    /\ g_events = <<>>

\* the rest of an attempt whose _make_request ended with `outcome`
Attempt(outcome) ==
    /\ g_outcomes' = Append(g_outcomes, outcome)
    /\ LET a == after_attempt(outcome, g_attempt)
       IN  IF a.do = "return"
           THEN g_pc' = "returned" /\ g_result' = Returned /\ UNCHANGED g_attempt
           ELSE IF a.do = "continue"
           THEN g_pc' = "attempt" /\ g_attempt' = g_attempt + 1 /\ UNCHANGED g_result
           ELSE g_pc' = "raised" /\ g_result' = Raised(a.error) /\ UNCHANGED g_attempt
    /\ UNCHANGED g_events
    /\ UNCHANGED <<dvars, lvars, ovars, bvars, wvars, cvars>>

\* groq.py 55-57: a non-empty list is returned
AttemptReturns ==
    /\ g_pc = "attempt"
    /\ Attempt("list")

\* groq.py 59-62: an empty list
AttemptEmpty ==
    /\ g_pc = "attempt"
    /\ Attempt("empty")

\* groq.py 64-70
AttemptRateLimited ==
    /\ g_pc = "attempt"
    /\ Attempt("RateLimitError")

\* groq.py 72-86
AttemptConnectionFails ==
    /\ g_pc = "attempt"
    /\ \E outcome \in {"APIConnectionError", "APITimeoutError"} : Attempt(outcome)

\* groq.py 88-97
AttemptStatusError ==
    /\ g_pc = "attempt"
    /\ \E outcome \in {"APIStatusError 4xx", "APIStatusError 5xx"} : Attempt(outcome)

\* groq.py 99-111: the answer is not JSON, or not a list of strings
AttemptParseFails ==
    /\ g_pc = "attempt"
    /\ \E outcome \in {"JSONDecodeError", "ValueError"} : Attempt(outcome)

\* domain.py 688-699: the streaming handler catches the DomainGeneratorException,
\* yields one error event and returns
StreamReportsLlmError ==
    /\ g_pc = "raised"
    /\ g_events' = Append(g_events, error_event(g_result.error))
    /\ g_pc' = "reported"
    /\ UNCHANGED <<g_attempt, g_outcomes, g_result>>
    /\ UNCHANGED <<dvars, lvars, ovars, bvars, wvars, cvars>>

LlmNext ==
    \/ AttemptReturns
    \/ AttemptEmpty
    \/ AttemptRateLimited
    \/ AttemptConnectionFails
    \/ AttemptStatusError
    \/ AttemptParseFails
    \/ StreamReportsLlmError

(***************************************************************************)
(* The domain probe: one call of check_domain (DNS, then WHOIS).  A WHOIS  *)
(* output is the set of phrases it contains.                               *)
(***************************************************************************)
\* logic.py 21-31, 34-43
FREE_KEYWORDS ==
    {"no match", "not found", "no entries found", "domain you requested is not known",
     "status: available", "available for purchase", "status: free",
     "the queried object does not exist", "no data found"}
REGISTERED_KEYWORDS ==
    {"domain name:", "registrar:", "domain status:", "creation date:", "expiry date:",
     "nameserver:", "name server:", "redacted for privacy"}

\* phrases a WHOIS server prints, as printed
WhoisPhrases == {"No match", "status: free", "Registrar:", "connection refused"}

\* str.lower on the phrases of WhoisPhrases
lower_phrase(phrase) ==
    IF phrase = "No match" THEN "no match"
    ELSE IF phrase = "Registrar:" THEN "registrar:"
    ELSE phrase

\* logic.py 120, 128: .lower() of an output
lower_output(text) == {lower_phrase(phrase) : phrase \in text}

\* logic.py 155-156: any(keyword in text for keyword in keywords)
contains_any_keyword(text, keywords) == text \cap keywords # {}

\* what dns_lookup_with_timeout can do (logic.py 105-112, 149-153)
DnsOutcomes == {"resolved", "gaierror", "ValueError", "UnicodeEncodeError", "timeout"}

NoOutput == [kind |-> "none", text |-> {}]

\* result.stdout of a finished run: text=True gives a str
CompleteOutputs == {[kind |-> "str", text |-> t] : t \in SUBSET WhoisPhrases}

\* TimeoutExpired.output: None when nothing was captured, else what was
\* captured, which the subprocess module hands over as bytes or, depending
\* on the platform, as str
PartialOutputs ==
    {NoOutput} \cup {[kind |-> k, text |-> t] :
                        k \in {"str", "bytes"}, t \in (SUBSET WhoisPhrases) \ {{}}}

NotDecided == "not decided"
\* logic.py 112, 140: the status the specification calls non_conclusive
NON_CONCLUSIVE == "non conclusive"
CheckRaised == "raised"

\* logic.py 120-126 / 128-137, 140: the keyword scan of the output;
\* `keyword in text` with a str keyword and a bytes text raises TypeError,
\* which no handler of check_domain catches when raised at 134-137
scan_output(output) ==
    IF output.kind = "bytes" /\ output.text # {} THEN CheckRaised
    ELSE LET text == lower_output(output.text)
         IN  IF contains_any_keyword(text, FREE_KEYWORDS) THEN "free"
             ELSE IF contains_any_keyword(text, REGISTERED_KEYWORDS) THEN "registered"
             ELSE NON_CONCLUSIVE

InitProbeVars ==
    /\ c_pc = "dns"
    /\ c_dns = "not run"
    /\ c_whois = "not run"
    /\ c_output = NoOutput
    /\ c_status = NotDecided

IdleProbeVars ==
    /\ c_pc = "off"
    /\ c_dns = "not run"
    /\ c_whois = "not run"
    /\ c_output = NoOutput
    /\ c_status = NotDecided

\* logic.py 103-105: the lookup succeeds
DnsResolves ==
    /\ c_pc = "dns"
    /\ c_dns' = "resolved"
    /\ c_status' = "registered"
    /\ c_pc' = "done"
    /\ UNCHANGED <<c_whois, c_output>>
    /\ UNCHANGED <<dvars, lvars, ovars, bvars, wvars, gvars>>

\* logic.py 111-112: socket.timeout
DnsTimesOut ==
    /\ c_pc = "dns"
    /\ c_dns' = "timeout"
    /\ c_status' = NON_CONCLUSIVE
    /\ c_pc' = "done"
    /\ UNCHANGED <<c_whois, c_output>>
    /\ UNCHANGED <<dvars, lvars, ovars, bvars, wvars, gvars>>

\* logic.py 106-109: UnicodeEncodeError is raised again
DnsEncodingError ==
    /\ c_pc = "dns"
    /\ c_dns' = "UnicodeEncodeError"
    /\ c_status' = CheckRaised
    /\ c_pc' = "done"
    /\ UNCHANGED <<c_whois, c_output>>
    /\ UNCHANGED <<dvars, lvars, ovars, bvars, wvars, gvars>>

\* logic.py 106-110: gaierror or ValueError, on to WHOIS
DnsNoSuchHost ==
    /\ c_pc = "dns"
    /\ \E e \in {"gaierror", "ValueError"} : c_dns' = e
    /\ c_pc' = "whois"
    /\ UNCHANGED <<c_whois, c_output, c_status>>
    /\ UNCHANGED <<dvars, lvars, ovars, bvars, wvars, gvars>>

\* logic.py 115-120: whois ran to its end
WhoisCompletes ==
    /\ c_pc = "whois"
    /\ c_whois' = "complete"
    /\ \E output \in CompleteOutputs : c_output' = output
    /\ c_pc' = "scan"
    /\ UNCHANGED <<c_dns, c_status>>
    /\ UNCHANGED <<dvars, lvars, ovars, bvars, wvars, gvars>>

\* logic.py 127-128: subprocess.TimeoutExpired with the output captured so far
WhoisTimesOut ==
    /\ c_pc = "whois"
    /\ c_whois' = "TimeoutExpired"
    /\ \E output \in PartialOutputs : c_output' = output
    /\ c_pc' = "scan"
    /\ UNCHANGED <<c_dns, c_status>>
    /\ UNCHANGED <<dvars, lvars, ovars, bvars, wvars, gvars>>

\* logic.py 137-140: any other exception of the run is logged
WhoisFails ==
    /\ c_pc = "whois"
    /\ c_whois' = "error"
    /\ c_status' = NON_CONCLUSIVE
    /\ c_pc' = "done"
    /\ UNCHANGED <<c_dns, c_output>>
    /\ UNCHANGED <<dvars, lvars, ovars, bvars, wvars, gvars>>

\* logic.py 120-126 / 128-135, 140
ScanOutput ==
    /\ c_pc = "scan"
    /\ c_status' = scan_output(c_output)
    /\ c_pc' = "done"
    /\ UNCHANGED <<c_dns, c_whois, c_output>>
    /\ UNCHANGED <<dvars, lvars, ovars, bvars, wvars, gvars>>

ProbeNext ==
    \/ DnsResolves
    \/ DnsTimesOut
    \/ DnsEncodingError
    \/ DnsNoSuchHost
    \/ WhoisCompletes
    \/ WhoisTimesOut
    \/ WhoisFails
    \/ ScanOutput

(***************************************************************************)
(* Specifications, one per component.                                      *)
(***************************************************************************)
InitDisp == InitDispVars /\ IdleLockVars /\ IdleOrchVars /\ IdleDbVars /\ IdleJobVars
    /\ IdleLlmVars /\ IdleProbeVars
SpecDisp == InitDisp /\ [][DispNext]_vars

InitLock == IdleDispVars /\ InitLockVars /\ IdleOrchVars /\ IdleDbVars /\ IdleJobVars
    /\ IdleLlmVars /\ IdleProbeVars
SpecLock == InitLock /\ [][LockNext]_vars

InitOrch == IdleDispVars /\ IdleLockVars /\ InitOrchVars /\ IdleDbVars /\ IdleJobVars
    /\ IdleLlmVars /\ IdleProbeVars
SpecOrch == InitOrch /\ [][OrchNext]_vars

\* the worker's job handlers alone
InitWork == IdleDispVars /\ IdleLockVars /\ IdleOrchVars /\ SeededDbVars /\ InitJobVars
    /\ IdleLlmVars /\ IdleProbeVars
SpecWork == InitWork /\ [][JobNext]_vars

\* the API's record writers next to a worker job
InitDb == IdleDispVars /\ IdleLockVars /\ IdleOrchVars /\ InitDbVars /\ InitRecheckJob
    /\ IdleLlmVars /\ IdleProbeVars
SpecDb == InitDb /\ [][DbNext]_vars

\* one invocation of the LLM client
InitLlm == IdleDispVars /\ IdleLockVars /\ IdleOrchVars /\ IdleDbVars /\ IdleJobVars
    /\ InitLlmVars /\ IdleProbeVars
SpecLlm == InitLlm /\ [][LlmNext]_vars

\* one call of check_domain
InitProbe == IdleDispVars /\ IdleLockVars /\ IdleOrchVars /\ IdleDbVars /\ IdleJobVars
    /\ IdleLlmVars /\ InitProbeVars
SpecProbe == InitProbe /\ [][ProbeNext]_vars

(***************************************************************************)
(* Properties of the check dispatcher (checked under SpecDisp).            *)
(***************************************************************************)
EntriesFor(res, d) == {i \in 1..Len(res) : res[i].domain = d}

\* C1: whatever the validator, the enqueues, the jobs and the configured job
\* timeout do, the list enqueue_and_wait returns for a non-empty input has
\* exactly one status entry per input domain and no entry for another domain.
C1_StatusMapIsTotal ==
    (d_pc = "done" /\ domains # <<>>) =>
        /\ ProcessedDomains(results) = Range(domains)
        /\ \A d \in Range(domains) : Cardinality(EntriesFor(results, d)) = 1

\* candidates whose job failed in one of the ways C8 lists: no enqueue attempt
\* succeeded; the job was seen failed or finished without a record; the job
\* had delivered no record when enqueue_and_wait stopped waiting
EnqueueExhausted == Range(valid_domains) \ Range(jobs)
JobDropped == {jobs[i] : i \in dropped_jobs}
HarvestedDomains == {completed_results[k].domain : k \in 1..Len(completed_results)}
PendingAtDeadline == Range(jobs) \ (HarvestedDomains \cup JobDropped)

\* C8: a candidate whose enqueue failed on all attempts, whose job was seen
\* failed or finished without a record, or whose job was still pending when the
\* wait ended, is reported exactly once, with status unknown, and every
\* result harvested from another job is returned as the worker reported it.
C8_JobFailureDegradesToUnknown ==
    d_pc = "done" =>
        /\ \A d \in EnqueueExhausted \cup JobDropped \cup PendingAtDeadline :
              /\ Cardinality(EntriesFor(results, d)) = 1
              /\ \A i \in EntriesFor(results, d) : results[i] = StatusEntry(d, "unknown")
        /\ \A k \in 1..Len(completed_results) :
              /\ Cardinality(EntriesFor(results, completed_results[k].domain)) = 1
              /\ completed_results[k] \in Range(results)

Rejected == {d \in Range(domains) : ~is_valid_domain(d)}
Accepted == {d \in Range(domains) : is_valid_domain(d)}

\* C16: only validator-accepted candidates are ever handed to the enqueue
\* loop or become jobs; once the partition is done every rejected candidate
\* has exactly one entry, with status invalid, and keeps it to the end; when
\* every candidate is rejected no job is enqueued.
C16_RejectedNeverEnqueued ==
    /\ Range(valid_domains) \subseteq Accepted
    /\ Range(jobs) \subseteq Accepted
    /\ d_pc \notin {"start", "off"} =>
          \A d \in Rejected :
              /\ Cardinality(EntriesFor(results, d)) = 1
              /\ StatusEntry(d, "invalid") \in Range(results)
    /\ (d_pc \notin {"start", "off"} /\ Accepted = {}) => (d_pc = "done" /\ jobs = <<>>)

C16_Witness ==
    /\ d_pc = "done"
    /\ Cardinality(Rejected) = 2
    /\ Len(jobs) = 1
    /\ timeout > 0

\* the dispatch created a job and waits with a positive timeout
WaitsForJobs == jobs # <<>> /\ timeout > 0

Enqueuing == d_pc = "enqueue" /\ d_idx <= Len(valid_domains)

CountOf(seq, x) == Cardinality({i \in 1..Len(seq) : seq[i] = x})

\* every candidate the enqueue loop has left has one job or one unknown
\* entry, never both, and the candidates not reached yet have neither
EnqueueAccounts ==
    \A f \in DispUniverse :
        /\ CountOf(results, StatusEntry(f, "unknown")) <= 1
        /\ d_pc = "enqueue" =>
              /\ CountOf(jobs, f) + CountOf(results, StatusEntry(f, "unknown"))
                    = CountOf(SubSeq(valid_domains, 1, d_idx - 1), f)
              /\ CountOf(jobs, f) <= 1

\* C38: a validator-accepted candidate gets at most 3 enqueue attempts; the
\* first success appends its one job and moves to the next candidate; a
\* failure of attempt 1 or 2 retries the same candidate; a failure of attempt
\* 3 appends one unknown entry, creates no job and moves to the next
\* candidate, which can still be enqueued.
C38_ThreeAttemptsThenUnknown ==
    /\ [](/\ attempt \in 0..(max_enqueue_retries - 1)
          /\ EnqueueAccounts
          /\ Enqueuing => ENABLED EnqueueOk)
    /\ [][Enqueuing =>
            LET d == valid_domains[d_idx] IN
            \/ /\ jobs' = Append(jobs, d)
               /\ results' = results
               /\ d_idx' = d_idx + 1
               /\ attempt' = 0
               /\ d_pc' = "enqueue"
            \/ /\ attempt + 1 < max_enqueue_retries
               /\ attempt' = attempt + 1
               /\ UNCHANGED <<jobs, results, d_idx, d_pc>>
            \/ /\ attempt + 1 = max_enqueue_retries
               /\ results' = Append(results, StatusEntry(d, "unknown"))
               /\ jobs' = jobs
               /\ d_idx' = d_idx + 1
               /\ attempt' = 0
               /\ d_pc' = "enqueue"]_vars

\* the first candidate failed three times and has its unknown entry, the
\* second was enqueued after it
C38_Witness ==
    /\ d_pc = "enqueue"
    /\ Len(valid_domains) = 2
    /\ d_idx = 3
    /\ jobs = <<valid_domains[2]>>
    /\ results # <<>>
    /\ results[Len(results)] = StatusEntry(valid_domains[1], "unknown")

(***************************************************************************)
(* Properties of the suggestion orchestrator (checked under SpecOrch).     *)
(***************************************************************************)
Last(seq) == seq[Len(seq)]

DistinctFqdns(acc) == Cardinality({acc[i].domain : i \in 1..Len(acc)})

NormalCompletion == o_pc = "done" /\ o_error = "none"
FailedInPass == o_pc = "done" /\ o_error \in {"llm", "dispatch"}
LoopEntered ==
    /\ o_error # "validation"
    /\ mode = "batch" \/ (events # <<>> /\ events[1].type = "start")

\* C2: the total of a batch response, and of the latest suggestions or complete
\* event, is the number of distinct fqdns in the accumulator, and the event's
\* available_count does not exceed its total.
C2_TotalCountsDistinctFqdns ==
    /\ response.kind = "returned" =>
          /\ response.suggestions = accumulated
          /\ response.total = DistinctFqdns(accumulated)
    /\ (events # <<>> /\ Last(events).type \in {"suggestions", "complete"}) =>
          /\ Last(events).total = DistinctFqdns(accumulated)
          /\ Last(events).available_count <= Last(events).total

C2_Witness ==
    /\ events # <<>>
    /\ Last(events).type = "suggestions"
    /\ Last(events).updates # <<>>
    /\ Last(events).total >= 2
    /\ Last(events).available_count >= 1

EventRecords(e) == Range(e.new) \cup Range(e.updates) \cup Range(e.suggestions)

\* C3: once an accumulator entry is available, no step replaces it or changes
\* its status, and no event emitted afterwards carries its fqdn with another
\* status.
C3_AvailableIsNeverReplaced ==
    [][\A i \in 1..Len(accumulated) :
          accumulated[i].status = AVAILABLE =>
             /\ Len(accumulated') >= i
             /\ accumulated'[i] = accumulated[i]
             /\ accumulated_lookup'[accumulated[i].domain] = AVAILABLE
             /\ Len(events') > Len(events) =>
                   \A rec \in EventRecords(Last(events')) :
                       rec.domain = accumulated[i].domain => rec.status = AVAILABLE]_vars

\* a later pass reported registered for an fqdn accumulated as available, and
\* the candidate loop has gone past it
C3_Witness ==
    /\ o_pc = "process"
    /\ \E k \in 1..Len(plain_domains) :
          /\ k < o_idx
          /\ status_lookup[plain_domains[k]] = "registered"
          /\ accumulated_lookup[plain_domains[k]] = AVAILABLE

\* C4: in both modes no fqdn accumulated as available is in the candidate list
\* about to be passed to enqueue_and_wait.
C4_AvailableNeverRedispatched ==
    o_pc = "dispatch" =>
        \A d \in Range(domains_to_check) : accumulated_lookup[d] # AVAILABLE

\* the passes left, then the position inside the pass; every step of the
\* handler makes it smaller
LoopVariant ==
    LET PassSpan == Cardinality(OrchUniverse) + 5
        InPass == IF o_pc = "entry" THEN PassSpan
                  ELSE IF o_pc = "loop" THEN PassSpan - 1
                  ELSE IF o_pc = "dispatch" THEN PassSpan - 2
                  ELSE IF o_pc = "process" THEN 2 + (Len(plain_domains) + 1 - o_idx)
                  ELSE IF o_pc = "finish" THEN 1
                  ELSE 0
    IN  IF o_pc \in {"done", "off"} THEN 0
        ELSE (max_retries - retries) * PassSpan + InPass

LoopBounded ==
    /\ llm_call_count <= max_retries
    /\ retries <= max_retries
    /\ llm_call_count <= retries + 1
    /\ o_pc = "loop" => available_count < requested_count
    /\ o_pc \in {"done", "off"} \/ ENABLED OrchNext
    /\ LoopVariant >= 0
    /\ (o_pc = "done" /\ LoopEntered /\ max_retries = 1) => llm_call_count = 1

\* C5: the loop terminates: a pass starts only while the target is not met and
\* the budget is not spent, the handler is never stuck before it is done, every
\* step of the handler decreases a non-negative measure, at most max_retries
\* LLM calls are made, and exactly one when max_retries = 1.
C5_LoopTerminates ==
    /\ []LoopBounded
    /\ [][OrchNext => LoopVariant' < LoopVariant]_vars

C5_Witness ==
    /\ o_pc = "done"
    /\ max_retries = 1
    /\ llm_call_count = 1
    /\ available_count < requested_count
    /\ accumulated # <<>>

C7_NeverThrowsOnPartialResults ==
    (FailedInPass /\ accumulated # <<>>) =>
        IF mode = "batch"
        THEN response = ResponseDomainSuggestion(accumulated)
        ELSE Last(events).type = "complete" /\ Last(events).suggestions = accumulated

\* C7 amended: an LLM or dispatcher failure ends the request without a final
\* list: batch propagates the exception; streaming raises nothing, ends with
\* an error event and no complete event, and every accumulator entry has
\* already been delivered in a suggestions event.
C7_FailureEndsWithoutFinalList ==
    FailedInPass =>
        IF mode = "batch"
        THEN response.kind = "raised"
        ELSE /\ response = NoResponse
             /\ Last(events).type = "error"
             /\ \A j \in 1..Len(events) : events[j].type # "complete"
             /\ \A i \in 1..Len(accumulated) :
                   \E j \in 1..Len(events) :
                       /\ events[j].type = "suggestions"
                       /\ accumulated[i] \in Range(events[j].new) \cup Range(events[j].updates)

C7_Witness ==
    /\ FailedInPass
    /\ o_error = "llm"
    /\ mode = "batch"
    /\ Len(accumulated) >= 2

\* the request passed validation and is answered by the event generator
Streaming == mode = "stream" /\ o_error # "validation"

EventTypes(evs) == [j \in 1..Len(evs) |-> evs[j].type]
Terminal == {"complete", "error"}

\* start, then suggestions events only, then at most one terminal event
WellFormedStream(types) ==
    /\ types # <<>> => types[1] = "start"
    /\ \A j \in 2..Len(types) :
          /\ types[j] \in {"suggestions"} \cup Terminal
          /\ types[j] \in Terminal => j = Len(types)

\* C13 as stated: every streaming response is start, suggestions events, one
\* terminal event (complete or error), and nothing after it.
C13_StartThenSuggestionsThenTerminal ==
    Streaming =>
        /\ WellFormedStream(EventTypes(events))
        /\ o_pc # "entry" => events[1].type = "start"
        /\ o_pc = "done" => (Len(events) >= 2 /\ Last(events).type \in Terminal)

\* C13 amended: a response whose suggestion record could not be created
\* consists of the single event error; every other response is start,
\* suggestions events, then exactly one terminal event, complete or error;
\* nothing follows a terminal event and the two never both occur.
C13_EventSequence ==
    Streaming =>
          /\ IF o_error = "create"
             THEN EventTypes(events) = <<"error">> /\ o_pc = "done"
             ELSE /\ WellFormedStream(EventTypes(events))
                  /\ o_pc # "entry" => events[1].type = "start"
          /\ o_pc = "done" <=> (events # <<>> /\ Last(events).type \in Terminal)
          /\ Cardinality({j \in 1..Len(events) : events[j].type \in Terminal}) <= 1
          /\ (events # <<>> /\ Last(events).type = "complete")
                <=> (o_pc = "done" /\ o_error = "none")

C13_Witness ==
    /\ mode = "stream"
    /\ o_pc = "done"
    /\ Len(events) >= 4
    /\ events[2].type = "suggestions"
    /\ Last(events).type = "error"
    /\ o_error = "unexpected"

\* C14: in every metrics row written, the available, registered and unknown
\* counts add up to domains_returned.
C14_StatusCountsSumToReturned ==
    \A k \in 1..Len(metrics_rows) :
        metrics_rows[k].available_domains_count
            + metrics_rows[k].registered_domains_count
            + metrics_rows[k].unknown_domains_count
        = metrics_rows[k].domains_returned

\* C15: a streaming request that has emitted its terminal event, complete or
\* error (LLM failure, dispatcher failure or unexpected exception), has
\* scheduled the save of its metrics record exactly once.
C15_StreamSchedulesOneSave ==
    (Streaming /\ o_pc = "done" /\ o_error # "create") => saves_scheduled = 1

\* the mapping as worded: the exact strings free and registered, all else unknown
ExactMapping(v) ==
    IF v = "free" THEN AVAILABLE
    ELSE IF v = "registered" THEN REGISTERED
    ELSE UNKNOWN

\* the same mapping applied to the lower-cased value
CaseFoldedMapping(v) == ExactMapping(lower(v))

\* a step of the candidate loop that reads a dispatched candidate's status
ReadsWorkerStatus ==
    /\ ProcessBatch \/ ProcessStream
    /\ status_lookup[plain_domains[o_idx]] # Absent

\* the step inserts its candidate into the accumulator with API status st
InsertsAs(st) ==
    LET d == plain_domains[o_idx]
    IN  /\ accumulated_lookup[d] = Absent
        /\ accumulated_lookup'[d] # Absent
        => /\ accumulated_lookup'[d] = st
           /\ Last(accumulated') = DomainSuggestion(d, st)

AllUnknown == \A i \in 1..Len(accumulated) : accumulated[i].status = UNKNOWN

C18_ZeroTargetReturnsEmpty ==
    (requested_count = 0 /\ o_pc = "done") =>
        /\ llm_call_count = 0
        /\ domains_to_check = <<>>
        /\ \A d \in OrchUniverse : status_lookup[d] = Absent
        /\ accumulated = <<>>
        /\ mode = "batch" => response = ResponseDomainSuggestion(<<>>)
        /\ mode = "stream" => (events # <<>> /\ Last(events).type = "complete")

\* the candidate the loop processes next, and its API status
Candidate == plain_domains[o_idx]
CandidateStatus ==
    map_worker_status_to_domain_status(LookupStatus(status_lookup, Candidate))
CapReached == available_count >= requested_count

\* C19: once available_count has reached the target, a step of the candidate
\* loop on a candidate that is not in the accumulator and is available leaves
\* the accumulator, its lookup, available_count and the emitted events as they
\* are, while a dispatched candidate that is not in the accumulator and is not
\* available is appended (and, in streaming mode, announced as new).
C19_AvailableBeyondTargetIsDropped ==
    [][((ProcessBatch \/ ProcessStream) /\ CapReached
            /\ accumulated_lookup[Candidate] = Absent)
        => IF CandidateStatus = AVAILABLE
           THEN /\ UNCHANGED <<accumulated, accumulated_lookup, available_count, events>>
                /\ o_idx' = o_idx + 1
           ELSE status_lookup[Candidate] # Absent
                => /\ accumulated' = Append(accumulated,
                                            DomainSuggestion(Candidate, CandidateStatus))
                   /\ accumulated_lookup'[Candidate] = CandidateStatus
                   /\ available_count' = available_count
                   /\ mode = "stream"
                        => /\ Len(events') = Len(events) + 1
                           /\ Last(events').new
                                = <<DomainSuggestion(Candidate, CandidateStatus)>>]_vars

\* a streaming pass over two free candidates with target 1: the second one has
\* been processed and is in neither the accumulator nor any event
C19_Witness ==
    /\ mode = "stream"
    /\ o_pc = "process"
    /\ o_idx = 3
    /\ requested_count = 1
    /\ available_count = 1
    /\ Len(accumulated) = 1
    /\ accumulated_lookup[plain_domains[2]] = Absent
    /\ map_worker_status_to_domain_status(status_lookup[plain_domains[2]]) = AVAILABLE
    /\ Len(events) = 2

Fqdns(acc) == [i \in 1..Len(acc) |-> acc[i].domain]

\* C20: the accumulator lists fqdns in the order of their first acceptance: a
\* step never moves or removes an entry's fqdn, adds at most one fqdn and adds
\* it at the end, and an entry whose status changes keeps its index and
\* becomes available.
C20_FirstAcceptanceOrderIsKept ==
    [][/\ Len(accumulated') \in {Len(accumulated), Len(accumulated) + 1}
       /\ SubSeq(Fqdns(accumulated'), 1, Len(accumulated)) = Fqdns(accumulated)
       /\ Len(accumulated') > Len(accumulated)
            => /\ o_pc = "process"
               /\ Last(accumulated').domain = Candidate
               /\ Candidate \notin Range(Fqdns(accumulated))
       /\ \A i \in 1..Len(accumulated) :
             accumulated'[i] # accumulated[i]
                => /\ accumulated[i].domain = Candidate
                   /\ accumulated[i].status # AVAILABLE
                   /\ accumulated'[i] = DomainSuggestion(Candidate, AVAILABLE)
                   /\ Len(accumulated') = Len(accumulated)]_vars

\* a streaming request with two entries whose first entry was upgraded in a
\* later pass and is still first
C20_Witness ==
    /\ mode = "stream"
    /\ Len(accumulated) = 2
    /\ accumulated[1].status = AVAILABLE
    /\ \E j \in 1..Len(events) :
          /\ events[j].type = "suggestions"
          /\ events[j].updates = <<accumulated[1]>>
    /\ \E j \in 1..Len(events) :
          /\ events[j].type = "suggestions"
          /\ events[j].new # <<>>
          /\ events[j].new[1].domain = accumulated[1].domain
          /\ events[j].new[1].status # AVAILABLE

\* C25: every suggestion request that reaches its handler has exactly one
\* suggestion record when it ends, also after an LLM or dispatcher failure:
\* a streaming request from its entry on, a batch request from its final
\* flush on; there is never more than one.
C25_OneSuggestionRecordPerRequest ==
    /\ suggestion_records <= 1
    /\ (mode = "batch" /\ o_pc # "done") => suggestion_records = 0
    /\ (Streaming /\ o_pc \notin {"entry", "off"} /\ o_error # "create")
          => suggestion_records = 1
    /\ (o_pc = "done" /\ o_error \in {"none", "llm", "dispatch", "unexpected"})
          => suggestion_records = 1

\* C26: upgrades are not capped: a step of the candidate loop, in either
\* mode, on a candidate that is in the accumulator as non-available and now
\* checks as available upgrades the entry and adds 1 to available_count also
\* when available_count has already reached the target.
C26_UpgradeIgnoresCap ==
    [][((ProcessBatch \/ ProcessStream) /\ CapReached
            /\ accumulated_lookup[Candidate] \notin {Absent, AVAILABLE}
            /\ CandidateStatus = AVAILABLE)
        => /\ available_count' = available_count + 1
           /\ available_count' > requested_count
           /\ accumulated_lookup'[Candidate] = AVAILABLE
           /\ DomainSuggestion(Candidate, AVAILABLE) \in Range(accumulated')
           /\ Len(accumulated') = Len(accumulated)]_vars

\* a batch pass that upgraded both entries of the accumulator with target 1
C26_Witness ==
    /\ mode = "batch"
    /\ requested_count = 1
    /\ available_count = 2
    /\ Len(accumulated) = 2
    /\ \A i \in 1..2 : accumulated[i].status = AVAILABLE
    /\ retries = 1
    /\ o_pc = "process"
    /\ o_idx = 3

\* the `suggestions` event that announces rec in the list `new` or `updates`
Announces(e, new, updates) ==
    /\ e.type = "suggestions"
    /\ e.new = new
    /\ e.updates = updates
    /\ e.suggestions = <<>>

\* C27: in streaming mode a step of the candidate loop emits at most one
\* event, and each `suggestions` event carries one record in one of `new`
\* and `updates`: an fqdn accepted for the first time gives new=[record],
\* updates=[]; a non-available entry found available gives new=[],
\* updates=[available record] and raises available_count by exactly 1; an
\* entry whose status does not become available gives no event.
C27_OneRecordPerSuggestionsEvent ==
    [][ProcessStream
        => LET d == Candidate
               rec == DomainSuggestion(d, CandidateStatus)
               old == accumulated_lookup[d]
           IN  /\ (Len(events') > Len(events))
                     => /\ events' = Append(events, Last(events'))
                        /\ Last(events').type = "suggestions"
                        /\ Len(Last(events').new) + Len(Last(events').updates) = 1
                        /\ Last(events').available_count = available_count'
                        /\ Last(events').total = Len(accumulated')
               /\ (old = Absent /\ d \in Range(Fqdns(accumulated')))
                     => /\ Len(events') = Len(events) + 1
                        /\ Announces(Last(events'), <<rec>>, <<>>)
               /\ (old = Absent /\ d \notin Range(Fqdns(accumulated')))
                     => events' = events
               /\ (old \notin {Absent, AVAILABLE} /\ CandidateStatus = AVAILABLE)
                     => /\ Len(events') = Len(events) + 1
                        /\ Announces(Last(events'), <<>>, <<rec>>)
                        /\ rec.status = AVAILABLE
                        /\ available_count' = available_count + 1
               /\ (old # Absent /\ ~(old # AVAILABLE /\ CandidateStatus = AVAILABLE))
                     => /\ events' = events
                        /\ available_count' = available_count]_vars

\* a stream whose first pass announced two fqdns as new and non-available and
\* whose second pass announced the upgrade of the first and passed over the
\* second, still not available, without an event
C27_Witness ==
    /\ Streaming
    /\ retries = 1
    /\ o_pc = "process"
    /\ o_idx = 3
    /\ Len(events) = 4
    /\ Len(events[2].new) = 1
    /\ Len(events[3].new) = 1
    /\ events[2].new[1].status # AVAILABLE
    /\ events[3].new[1].status # AVAILABLE
    /\ events[4].new = <<>>
    /\ events[4].updates = <<DomainSuggestion(plain_domains[1], AVAILABLE)>>
    /\ events[4].available_count = 1
    /\ plain_domains[1] = events[2].new[1].domain
    /\ plain_domains[2] = events[3].new[1].domain
    /\ status_lookup[plain_domains[2]] # Absent

\* C28: in streaming mode time-to-first-suggestion is stamped by an accepted
\* record whose status is available: the record that stamped it is an
\* available one, and accepting registered or unknown records leaves it
\* unstamped.
C28_FirstSuggestionStampedByAvailable ==
    Streaming => (first_suggestion # NotStamped => first_suggestion.status = AVAILABLE)

\* the worker statuses a pass can hold for candidate d: the one dispatched for
\* it, or any status when this mode did not dispatch d
PassStatuses(d) ==
    IF status_lookup[d] # Absent THEN {status_lookup[d]} ELSE DispatchStatuses

\* the status the streaming loop reads for d when the worker's status is ws
\* (domain.py 717-722, 769: an available fqdn is not dispatched and defaults)
StreamStatusRead(d, ws) ==
    IF accumulated_lookup[d] = AVAILABLE THEN "unknown" ELSE ws

\* from the same loop state and the same inputs a step of either mode leaves
\* the accumulator, its lookup and available_count as the other mode would,
\* and a pass that streaming cuts short is one that batch counts unchanged
ModesAccumulateAlike ==
    /\ (ProcessBatch \/ ProcessStream)
          => \A ws \in PassStatuses(Candidate) :
                LET b == BatchAccumulate(accumulated, accumulated_lookup,
                             available_count, requested_count, Candidate,
                             map_worker_status_to_domain_status(ws))
                    t == StreamAccumulate(accumulated, accumulated_lookup,
                             available_count, requested_count, Candidate,
                             map_worker_status_to_domain_status(
                                 StreamStatusRead(Candidate, ws)))
                IN  /\ b.acc = t.acc /\ b.lookup = t.lookup /\ b.avail = t.avail
                    /\ accumulated' = b.acc
                    /\ accumulated_lookup' = b.lookup
                    /\ available_count' = b.avail
    /\ (LlmReturns /\ StreamDomainsToCheck(plain_domains', accumulated_lookup) = <<>>)
          => /\ ~TargetReached(available_count, requested_count)
             /\ \A i \in 1..Len(plain_domains') :
                   accumulated_lookup[plain_domains'[i]] = AVAILABLE
             /\ mode = "stream" => retries' = NextRetries(retries)

\* both modes hand the same candidates of a pass to the dispatcher
ModesDispatchAlike ==
    LlmReturns
      => BatchDomainsToCheck(plain_domains', accumulated_lookup)
           = StreamDomainsToCheck(plain_domains', accumulated_lookup)

C30_PersistedStatusComesFromCheck ==
    [][ProcessStream
        => /\ Candidate \notin Range(domains_to_check)
                 => persisted'[Candidate] = persisted[Candidate]
           /\ persisted' # persisted
                 => /\ status_lookup[Candidate] # Absent
                    /\ persisted'[Candidate]
                          = map_worker_status_to_domain_status(status_lookup[Candidate])]_vars

\* C36: the success_rate of every metrics row written is min(1,
\* available/target): it never exceeds 1, it is available/target when that is
\* at most 1, and one row is written per save call.
C36_SuccessRateAtMostOne ==
    /\ Len(metrics_rows) = saves_scheduled
    /\ \A k \in 1..Len(metrics_rows) :
          LET row == metrics_rows[k]
          IN  /\ row.success_rate.num <= row.success_rate.den
              /\ row.available_domains_count <= requested_count
                    => row.success_rate
                         = [num |-> row.available_domains_count, den |-> requested_count]

\* the tracker's reached_target says what the loop ended with
ReachedTargetAgrees ==
    \A k \in 1..Len(metrics_rows) :
        metrics_rows[k].reached_target <=> (available_count >= requested_count)

\* C40: in every metrics row written, the tracker's available count is the
\* orchestrator's final available_count, and reached_target is true exactly
\* when the loop ended with available_count >= target.
C40_ReachedTargetAgreesWithLoop ==
    /\ \A k \in 1..Len(metrics_rows) :
          metrics_rows[k].available_domains_count = available_count
    /\ ReachedTargetAgrees

\* C39: throughout the retry loop of both modes available_count is the number
\* of available accumulator entries, no fqdn occurs twice in the accumulator,
\* and accumulated_lookup has exactly the accumulator's fqdns as keys, each
\* mapped to the status of the entry stored for it.
C39_AccumulatorBookkeeping ==
    /\ available_count
         = Cardinality({i \in 1..Len(accumulated) : accumulated[i].status = AVAILABLE})
    /\ \A i, j \in 1..Len(accumulated) :
          accumulated[i].domain = accumulated[j].domain => i = j
    /\ \A d \in OrchUniverse :
          accumulated_lookup[d] # Absent <=> d \in Range(Fqdns(accumulated))
    /\ \A i \in 1..Len(accumulated) :
          accumulated_lookup[accumulated[i].domain] = accumulated[i].status

\* a batch request in a later pass whose accumulator holds an upgraded entry
\* next to an entry that is not available
C39_Witness ==
    /\ mode = "batch"
    /\ o_pc = "process"
    /\ retries >= 1
    /\ Len(accumulated) = 2
    /\ available_count = 1
    /\ \E k \in 1..Len(plain_domains) :
          /\ k < o_idx
          /\ status_lookup[plain_domains[k]] = "free"
          /\ plain_domains[k] = accumulated[1].domain
    /\ accumulated[2].status # AVAILABLE

(***************************************************************************)
(* Properties of the recheck lock (checked under SpecLock).                *)
(***************************************************************************)
\* the supervisors between a successful SET NX and their DELETE
InCriticalSection == {w \in Workers : s_pc[w] \in {"fetch", "enqueue", "release"}}

\* C9: at most one worker is between its successful acquire and its release,
\* and no release has deleted a key that another worker had set.
C9_LockIsExclusive ==
    /\ Cardinality(InCriticalSection) <= 1
    /\ ~lost_release

RecheckJobsOutstanding ==
    {<<"queue", i>> : i \in {j \in 1..Len(queue) : queue[j].kind = "recheck"}}
        \cup {<<"running", w>> : w \in {v \in Workers : running[v].kind = "recheck"}}

JobFqdns(h) == IF h[1] = "queue" THEN Range(queue[h[2]].fqdns)
               ELSE Range(running[h[2]].fqdns)

\* C10: a sweep enqueues one recheck job: no stale record is carried by two
\* recheck jobs that are queued or running at the same time.
C10_OneRecheckJobPerSweep ==
    \A r \in Records :
        Cardinality({h \in RecheckJobsOutstanding : r \in JobFqdns(h)}) <= 1

\* the key is never armed beyond its TTL, and once it is absent a supervisor
\* about to attempt the acquisition can take the lock
LockExpiryState ==
    /\ lock_ttl \in 0..recheck_lock_ttl
    /\ lock_ttl = 0 <=> lock_setter = "none"
    /\ \A w \in Workers :
          (s_pc[w] = "acquire" /\ lock_ttl = 0) =>
              ENABLED (AcquireLock(w) /\ lock_setter' = w)

\* C11: a lock whose holder takes no further step does not stay held: every
\* poll interval that passes runs the key's TTL down, whatever the holder
\* does; nothing re-arms a key that is present; and once the TTL has elapsed
\* the key is absent and an acquisition attempt by another worker succeeds.
C11_LockExpiresWithoutRelease ==
    /\ []LockExpiryState
    /\ [][/\ Tick => lock_ttl' = Max(lock_ttl - RECHECK_POLL_INTERVAL, 0)
          /\ lock_ttl' > lock_ttl => lock_ttl = 0
          /\ \A w \in Workers :
                (AcquireLock(w) /\ lock_ttl = 0) =>
                    (lock_setter' = w /\ s_pc'[w] = "fetch")]_vars

\* w1 never released (it is still between acquire and release), the key ran
\* out, and w2 has acquired the lock
C11_Witness ==
    /\ s_pc["w1"] = "fetch"
    /\ lock_setter = "w2"
    /\ s_pc["w2"] = "fetch"
    /\ ~lost_release

\* the step in which supervisor w runs the checks of its tick
TickChecked(w) == s_pc[w] = "due" /\ s_pc'[w] # "due"

\* a recheck job is put on the queue
RecheckEnqueued ==
    /\ Len(queue') = Len(queue) + 1
    /\ queue'[Len(queue')].kind = "recheck"

\* C12: a tick that finds the queue non-empty, or the queue empty and the idle
\* clock below the threshold, ends there: no acquisition attempt, no recheck
\* job; a supervisor reaches the acquisition, and from it the enqueue, only in
\* a tick whose checks found the queue empty and the idle clock at or past
\* the threshold.
C12_NoRecheckUnlessIdle ==
    [][\A w \in Workers :
         /\ (TickChecked(w) /\ (queue # <<>> \/ idle_duration[w] < IDLE_THRESHOLD_SECONDS))
               => /\ s_pc'[w] = "sleep"
                  /\ UNCHANGED <<queue, lock_ttl, lock_setter>>
         /\ (s_pc'[w] = "acquire" /\ s_pc[w] # "acquire")
               => /\ s_pc[w] = "due"
                  /\ queue = <<>>
                  /\ idle_duration[w] >= IDLE_THRESHOLD_SECONDS
         /\ (s_pc'[w] = "fetch" /\ s_pc[w] # "fetch") => s_pc[w] = "acquire"
         /\ (s_pc'[w] = "enqueue" /\ s_pc[w] # "enqueue") => s_pc[w] = "fetch"
         /\ (s_pc[w] = "sleep" /\ s_pc'[w] # "sleep") => s_pc'[w] = "due"
         /\ (RecheckEnqueued /\ s_pc'[w] # s_pc[w]) => s_pc[w] = "enqueue"
         /\ RecheckEnqueued => \E v \in Workers : s_pc[v] = "enqueue" /\ s_pc'[v] = "release"]_vars

\* w1's tick ended on the idle threshold (clock at one poll interval), w2's
\* on a waiting check job (clock reset); neither attempted the lock
C12_Witness ==
    /\ s_pc = [w \in Workers |-> "sleep"]
    /\ idle_duration["w1"] = RECHECK_POLL_INTERVAL
    /\ idle_duration["w2"] = 0
    /\ queue = <<CheckJob>>
    /\ running = [w \in Workers |-> NoJob]
    /\ lock_ttl = 0

\* C37: the supervisor of a worker enqueues a recheck job only when at least
\* the idle threshold has passed since that worker's last job completion.
\* Between the threshold test and the enqueue only a job completion resets
\* the supervisor's clock, so the clock at the enqueue is below the threshold
\* exactly when a job of the worker completed less than a threshold ago.
C37_NoRecheckSoonAfterCompletion ==
    [][\A w \in Workers :
          EnqueueRecheck(w) => idle_duration[w] >= IDLE_THRESHOLD_SECONDS]_vars

(***************************************************************************)
(* Properties of the domain records (checked under SpecDb) and of the      *)
(* worker's job handlers (checked under SpecWork).                         *)
(***************************************************************************)
\* C21: when upsert_domain_in_db is called with the fqdn and status of the
\* upsert that wrote the record last, after that upsert returned and with no
\* other write in between, its write leaves one record with the same status,
\* created_at and suggestion back-reference, a last_checked that is not
\* earlier, and it does not fail on creating a second record.
C21_RepeatedUpsertKeepsRecord ==
    [][\A o \in ApiOps :
          (ApiWrite(o) /\ RepeatsUpsert(api_ops[o], db_rows[api_ops[o].domain]))
          => LET d == api_ops[o].domain
             IN  /\ api_ops'[o] = DoneOp
                 /\ db_rows'[d].exists
                 /\ db_rows'[d].status = db_rows[d].status
                 /\ db_rows'[d].created_at = db_rows[d].created_at
                 /\ db_rows'[d].suggestion_id = db_rows[d].suggestion_id
                 /\ db_rows'[d].suggestion_id # NoSuggestion
                 /\ db_rows'[d].last_checked >= db_rows[d].last_checked
                 /\ \A e \in DbUniverse \ {d} : db_rows'[e] = db_rows[e]]_vars

\* a record created by one upsert and written again, later, by a repetition
C21_Witness ==
    \E d \in ApiDomains :
       /\ db_rows[d].exists
       /\ db_rows[d].repeated
       /\ db_rows[d].writer = "upsert"
       /\ db_rows[d].last_checked > db_rows[d].created_at
       /\ \A o \in ApiOps : api_ops[o] = DoneOp

\* C22: the last_checked of a domain record never decreases, whatever the
\* interleaving of the API's upserts and updates and the worker's write-back.
C22_LastCheckedNeverDecreases ==
    [][\A d \in DbUniverse :
          (db_rows[d].exists /\ db_rows'[d].exists)
          => db_rows'[d].last_checked >= db_rows[d].last_checked]_vars

\* C31: concurrent upserts of one fqdn are reconciled by last-writer-wins:
\* the write of an upsert whose record is absent or was written last by another
\* upsert completes without error and leaves exactly that fqdn's record,
\* carrying the status of this write.
C31_ConcurrentUpsertsLastWriterWins ==
    [][\A o \in ApiOps :
          LET op == api_ops[o]
              d == op.domain
          IN  (ApiWrite(o) /\ op.kind = "upsert"
                 /\ (db_rows[d].exists => db_rows[d].writer = "upsert"))
              => /\ api_ops'[o] = DoneOp
                 /\ db_rows'[d].exists
                 /\ db_rows'[d].status = op.status
                 /\ db_rows'[d].writer = "upsert"]_vars

\* the indexes of j_domains whose probe has finished
Probed == {i \in 1..Len(j_probes) : j_probes[i] # "not run"}

\* what check_domains owes for input index i
ExpectedResult(i) ==
    [domain |-> j_domains[i],
     status |-> IF j_probes[i] = "raise" THEN "invalid" ELSE j_probes[i]]

\* res lists, in some order, exactly one result for every index in idx
OneResultPerIndex(res, idx) ==
    \E f \in [1..Len(res) -> idx] :
       /\ \A k, l \in 1..Len(res) : f[k] = f[l] => k = l
       /\ \A i \in idx : \E k \in 1..Len(res) : f[k] = i
       /\ \A k \in 1..Len(res) : res[k] = ExpectedResult(f[k])

Occurrences(seq, d) == Cardinality({i \in 1..Len(seq) : seq[i] = d})

\* C23: check_domains returns exactly one result per input domain, in any
\* order: the result of a probe that returned carries its status, the result
\* of a probe that raised carries invalid, and the others are not affected;
\* for an empty input it returns the empty list and runs no probe.
C23_OneResultPerInputDomain ==
    /\ j_pc \notin {"off", "start"} => OneResultPerIndex(j_results, Probed)
    /\ j_pc \in {"checked", "rows", "return", "done"}
         => /\ Probed = 1..Len(j_domains)
            /\ Len(j_results) = Len(j_domains)
            /\ \A d \in DbUniverse :
                  Occurrences([k \in 1..Len(j_results) |-> j_results[k].domain], d)
                     = Occurrences(j_domains, d)
    /\ j_domains = <<>> => (j_results = <<>> /\ Probed = {} /\ j_pc # "probing")

\* two domains, the second probe finished first and raised, the first returned
C23_Witness ==
    /\ j_pc = "done"
    /\ Len(j_domains) = 2
    /\ j_domains[1] # j_domains[2]
    /\ j_probes[1] = "free"
    /\ j_probes[2] = "raise"
    /\ j_results = <<[domain |-> j_domains[2], status |-> "invalid"],
                     [domain |-> j_domains[1], status |-> "free"]>>

\* C24: handle_domain_recheck returns the check results of all its input
\* domains whether or not the write-back raised: a write-back failure ends
\* in the handler's return, never in a failed job, the write-back does not
\* touch the results, and the returned list is the results list.
C24_RecheckReturnsDespiteWriteBackFailure ==
    /\ [](j_kind = "recheck"
            => /\ wb_failed => j_pc \in {"return", "done"}
               /\ j_pc = "return" => ENABLED RecheckReturns
               /\ j_pc = "done"
                    => /\ j_returned = j_results
                       /\ Len(j_returned) = Len(j_domains)
                       /\ OneResultPerIndex(j_returned, 1..Len(j_domains)))
    /\ [][(WriteBackBegin \/ WriteBackRow \/ WriteBackEnd \/ WriteBackRaises)
            => UNCHANGED j_results]_vars

\* a recheck of two domains whose write-back raised after the first row
C24_Witness ==
    /\ j_pc = "done"
    /\ j_kind = "recheck"
    /\ wb_failed
    /\ wb_idx = 2
    /\ Len(j_returned) = 2
    /\ j_returned = j_results

(***************************************************************************)
(* Properties of the LLM client (checked under SpecLlm).                   *)
(***************************************************************************)
\* outcomes after which generate tries again while attempts remain
Transient == {"RateLimitError", "APIConnectionError", "APITimeoutError"}

LastOutcome == g_outcomes[Len(g_outcomes)]

\* C33: one invocation of generate calls the completion endpoint at most 3
\* times and returns at the first call that yields a non-empty list; after a
\* connection, timeout or rate-limit error it tries again while attempts
\* remain; a 4xx status other than 429 ends the invocation at that call.
C33_AtMostThreeCallsFirstListReturns ==
    /\ Len(g_outcomes) <= 3
    /\ g_pc = "attempt" => Len(g_outcomes) = g_attempt /\ g_attempt < 3
    /\ \A i \in 1..Len(g_outcomes) :
          g_outcomes[i] \in {"list", "APIStatusError 4xx"}
             => i = Len(g_outcomes) /\ g_pc # "attempt"
    /\ g_result = Returned <=> (g_outcomes # <<>> /\ LastOutcome = "list")
    /\ (g_outcomes # <<>> /\ LastOutcome = "APIStatusError 4xx")
          => g_result.kind = "raised"
    /\ (g_outcomes # <<>> /\ LastOutcome \in Transient /\ Len(g_outcomes) < 3)
          => g_pc = "attempt" /\ g_result = NoLlmResult

\* generate returned at its third call, after a rate limit and a timeout
C33_Witness ==
    /\ g_pc = "returned"
    /\ g_outcomes = <<"RateLimitError", "APITimeoutError", "list">>

\* the exception generate owes for the outcome of its final attempt
FinalFailure(outcome) ==
    IF outcome = "RateLimitError" THEN RateLimitedError
    ELSE IF outcome \in {"APIConnectionError", "APITimeoutError", "APIStatusError 5xx"}
    THEN ServiceUnavailableError
    ELSE GenerationFailedError

\* C34: when generate fails, the failure of its final attempt alone decides
\* the exception: RateLimited for a rate limit, ServiceUnavailable for a
\* connection or timeout error, GenerationFailed for a parse failure or an
\* empty result; the streaming handler then yields one error event with that
\* exception's code and nothing after it.
C34_FinalFailureSurfaces ==
    /\ g_result.kind = "raised"
          => /\ g_outcomes # <<>>
             /\ g_result.error = FinalFailure(LastOutcome)
             /\ LastOutcome = "RateLimitError" => g_result.error.code = "rate_limited"
             /\ LastOutcome \in {"APIConnectionError", "APITimeoutError"}
                   => g_result.error.code = "service_unavailable"
             /\ LastOutcome \in {"JSONDecodeError", "ValueError", "empty"}
                   => g_result.error.code = "generation_failed"
    /\ g_pc = "raised" => g_events = <<>>
    /\ g_pc = "reported"
          => /\ g_result.kind = "raised"
             /\ g_events = <<[type |-> "error", code |-> g_result.error.code]>>
             /\ ~ENABLED LlmNext
    /\ g_pc \in {"attempt", "returned"} => g_events = <<>>

\* a timeout, a parse failure and a final rate limit: reported as rate_limited
C34_Witness ==
    /\ g_pc = "reported"
    /\ g_outcomes = <<"APITimeoutError", "JSONDecodeError", "RateLimitError">>
    /\ g_events = <<[type |-> "error", code |-> "rate_limited"]>>

(***************************************************************************)
(* Properties of the domain probe (checked under SpecProbe).               *)
(***************************************************************************)
\* what a keyword scan of the captured output owes: free before registered
ScanOwes(text) ==
    IF contains_any_keyword(lower_output(text), FREE_KEYWORDS) THEN "free"
    ELSE IF contains_any_keyword(lower_output(text), REGISTERED_KEYWORDS)
    THEN "registered"
    ELSE NON_CONCLUSIVE

\* C35: check_domain ends with one of free, registered, non_conclusive,
\* invalid (raising, for its caller to report invalid, on an encoding error
\* only), decided in this order: a DNS success gives registered and a DNS timeout
\* gives non_conclusive, both without WHOIS; DNS no-such-host goes on to WHOIS,
\* whose output, complete or partial on a WHOIS timeout, gives free if it
\* has a free indicator, else registered if it has a registered indicator,
\* else non_conclusive.
C35_StatusDecidedDnsThenWhois ==
    c_pc = "done"
    => /\ IF c_dns = "UnicodeEncodeError"
          THEN c_status = CheckRaised    \* reported as invalid by the caller
          ELSE c_status \in {"free", "registered", NON_CONCLUSIVE}
       /\ c_dns = "resolved" => (c_status = "registered" /\ c_whois = "not run")
       /\ c_dns = "timeout" => (c_status = NON_CONCLUSIVE /\ c_whois = "not run")
       /\ (c_dns = "gaierror" /\ c_whois \in {"complete", "TimeoutExpired"})
             => c_status = ScanOwes(c_output.text)

====
